---- MODULE Spec2Model ----
(***************************************************************************)
(* Agent-AQI API: in-memory store, job pipeline, arena battles, paper     *)
(* bets and QuickNode stream reconciliation, modelled as a state machine. *)
(*                                                                         *)
(* Node runs the handlers on one thread: an action of this module is the  *)
(* code that runs between two suspension points (an await on a network    *)
(* call or a timer), together with the promise continuations it triggers. *)
(*                                                                         *)
(* Units: ETH amounts are integers counting 0.0001 ETH, so 0.001 ETH is   *)
(* 10; return-on-investment is counted in 0.1 %.  Math.round(x * 10^k) /  *)
(* 10^k is modelled on exact rationals (round half up).                   *)
(***************************************************************************)
EXTENDS Integers, Sequences, FiniteSets, TLC

VARIABLES
    mode,           \* process.env.EXECUTION_MODE, fixed for the process
    receipts,       \* store.ts receipts
    events,         \* store.ts events (the SSE log)
    battles,        \* store.ts battles
    currentBattleId,\* store.ts _currentBattleId
    streamEvents,   \* store.ts streamEvents
    jobs,           \* the runJob invocations in flight or finished
    paperBets,      \* paperBets.ts paperBets
    paperResults,   \* paperBets.ts paperResults
    nicknameStats,  \* paperBets.ts nicknameStats (Map nickname -> stats)
    nextBattleId,   \* number of battle ids handed out so far (uuidv4)
    autoResolve,    \* what canAutoResolve() returns (environment), fixed for the process
    predictionCalls,\* resolvePredictionBattle calls whose promise is still pending
    lastResolve,    \* what the latest resolvePaperBets call was given and returned
    response,       \* the HTTP status of the latest request answered, of those counted
    sseClients,     \* store.ts sseClients: the open responses of GET /events, each
                    \* with what was written to it
    nodeEnv,        \* process.env["NODE_ENV"], fixed for the process
    aqiCall,        \* a call of computeAQI: the receipts it is given and what it returns
    escrow          \* the storage of the EscrowPredictionPool contract, its balance,
                    \* the ether it has sent and the outcome of the latest call

vars == <<mode, receipts, events, battles, currentBattleId, streamEvents, jobs,
          paperBets, paperResults, nicknameStats, nextBattleId, autoResolve,
          predictionCalls, lastResolve, response, sseClients, nodeEnv,
          aqiCall, escrow>>

\* ------------------------------------------------------------------ values

\* `undefined` / null in a numeric or id position
Undef == -1

\* `undefined` in an agent or string position
NoAgent == "none"

VALID_AGENTS == <<"safe", "fast", "cheap">>

VALID_TYPES == <<"speed", "gas", "reliability", "slippage">>

Range(s) == {s[i] : i \in DOMAIN s}

Includes(s, x) == \E i \in DOMAIN s : s[i] = x

\* Array.prototype.find as an index: the least position of the set, 0 if it is empty
FirstIndex(S) == IF S = {} THEN 0 ELSE CHOOSE i \in S : \A j \in S : i <= j

\* Object.assign(target, patch): the patch's own keys overwrite the target's
ObjectAssign(target, patch) ==
    [f \in DOMAIN target |-> IF f \in DOMAIN patch THEN patch[f] ELSE target[f]]

\* Math.round(num / den) for den > 0: the nearest integer, halves going up
MathRound(num, den) == (2 * num + den) \div (2 * den)

\* ------------------------------------------------------------ rounding helpers

\* r1(n): n given as the rational num/den in percent, result in 0.1 %
r1(num, den) == MathRound(num * 10, den)

\* r3(n): n in 0.0001 ETH, result in 0.0001 ETH (a multiple of 0.001 ETH)
r3(n) == MathRound(n, 10) * 10

\* the fourth decimal cut off where it is rounded
r4Truncates(num, den) == num \div den

\* r4(n): n given as the rational num/den in 0.0001 ETH, result in 0.0001 ETH
r4(num, den) == MathRound(num, den)

\* ------------------------------------------------------------------- events

\* emitEvent: the event is appended to the log (ids and timestamps left out)
emitEvent(evs, type, payload) == Append(evs, [type |-> type, payload |-> payload])

\* ------------------------------------------------------------- battle store

\* MAX_BATTLES is 100 in store.ts; scaled down so that eviction happens
MAX_BATTLES == 2

addBattle(bs, battle) ==
    LET pushed == Append(bs, battle)
    IN  IF Len(pushed) > MAX_BATTLES
        THEN SubSeq(pushed, Len(pushed) - MAX_BATTLES + 1, Len(pushed))
        ELSE pushed

\* index of the record battles.find returns, 0 for undefined
getBattle(bs, battleId) == FirstIndex({i \in DOMAIN bs : bs[i].battleId = battleId})

updateBattleScorecard(bs, battleId, agentId, patch) ==
    LET bi == getBattle(bs, battleId)
    IN  IF bi = 0 THEN bs
        ELSE LET cards == bs[bi].scorecards
                 ci == FirstIndex({i \in DOMAIN cards : cards[i].agentId = agentId})
             IN  IF ci = 0 THEN bs
                 ELSE [bs EXCEPT ![bi].scorecards[ci] = ObjectAssign(@, patch)]

startBattle(bs, battleId) ==
    LET bi == getBattle(bs, battleId)
    IN  IF bi = 0 THEN bs ELSE [bs EXCEPT ![bi].status = "running"]

\* a finalization that records the winner and leaves the status as it is
finalizeBattleWinnerOnly(bs, battleId, winnerAgentId) ==
    LET bi == getBattle(bs, battleId)
    IN  IF bi = 0 THEN bs ELSE [bs EXCEPT ![bi].winnerAgentId = winnerAgentId]

finalizeBattle(bs, battleId, winnerAgentId) ==
    LET bi == getBattle(bs, battleId)
    IN  IF bi = 0 THEN bs
        ELSE [bs EXCEPT ![bi].status = "complete", ![bi].winnerAgentId = winnerAgentId]

\* the scorecards a new battle record starts with: ids.map(id => pending card)
NewScorecards(ids) ==
    [i \in DOMAIN ids |->
        [agentId |-> ids[i], jobId |-> Undef, status |-> "pending",
         latencyMs |-> Undef, gasUsedUsd |-> Undef, slippageBps |-> Undef,
         quotedOut |-> Undef, verifiedByStream |-> FALSE]]

NewBattle(battleId, type, ids, status) ==
    [battleId |-> battleId, battleType |-> type, agentIds |-> ids,
     scorecards |-> NewScorecards(ids), status |-> status, winnerAgentId |-> NoAgent,
     resolveTxHash |-> Undef]

\* ------------------------------------------------------------ receipt store

addReceipt(rs, receipt) == Append(rs, receipt)

getReceiptsByAgent(rs, agentId) == SelectSeq(rs, LAMBDA r : r.agentId = agentId)

\* the whole history where its tail belongs
SliceNothing(s, n) == s

\* Array.prototype.slice(-n)
SliceLast(s, n) == IF Len(s) <= n THEN s ELSE SubSeq(s, Len(s) - n + 1, Len(s))

\* ------------------------------------------------------- winner determination

\* JavaScript's Infinity: above every metric value
Infinity == 1000000

\* a missing metric read as it is stored, below every value
OrNothing(card, field) == card[field]

\* card[field] ?? Infinity
OrInfinity(card, field) == IF card[field] = Undef THEN Infinity ELSE card[field]

\* where a stable sort by field puts x in the already sorted list: behind every
\* element that does not compare greater
InsertBy(sorted, x, field) ==
    LET k == Cardinality({i \in DOMAIN sorted :
                            OrInfinity(sorted[i], field) <= OrInfinity(x, field)})
    IN  SubSeq(sorted, 1, k) \o <<x>> \o SubSeq(sorted, k + 1, Len(sorted))

\* [...cards].sort((a, b) => (a[field] ?? Infinity) - (b[field] ?? Infinity)), stable
RECURSIVE SortBy(_, _)
SortBy(cards, field) ==
    IF cards = <<>> THEN <<>>
    ELSE InsertBy(SortBy(SubSeq(cards, 1, Len(cards) - 1), field), cards[Len(cards)], field)

\* sorted[0]?.agentId
HeadAgent(cards) == IF cards = <<>> THEN NoAgent ELSE cards[1].agentId

\* the window of the reliability rule: slice(-10)
RELIABILITY_WINDOW == 10

\* an agent's rate as the pair <<fulfilled, length>> of its last receipts; <<0, 1>> when
\* it has none
ReliabilityRate(rs, agentId) ==
    LET hist == SliceLast(getReceiptsByAgent(rs, agentId), RELIABILITY_WINDOW)
    IN  IF Len(hist) > 0
        THEN <<Len(SelectSeq(hist, LAMBDA r : r.outcome.status = "fulfilled")), Len(hist)>>
        ELSE <<0, 1>>

\* rate >= best.rate: a later agent with the same rate takes over
RateAtLeast(rate, best) == rate[1] * best[2] >= best[1] * rate[2]

\* rate > best.rate on fractions
RateGreater(rate, best) == rate[1] * best[2] > best[1] * rate[2]

\* the loop over the cards: best is <<>> (null) or <<[agentId, rate]>>
RECURSIVE BestByRate(_, _, _)
BestByRate(cards, rs, best) ==
    IF cards = <<>> THEN best
    ELSE LET rate == ReliabilityRate(rs, cards[1].agentId)
             next == IF best = <<>> \/ RateGreater(rate, best[1].rate)
                     THEN <<[agentId |-> cards[1].agentId, rate |-> rate]>>
                     ELSE best
         IN  BestByRate(Tail(cards), rs, next)

determineWinner(bs, rs, battleId, battleType) ==
    LET bi == getBattle(bs, battleId)
    IN  IF bi = 0 THEN NoAgent
        ELSE LET cards     == bs[bi].scorecards
                 fulfilled == SelectSeq(cards, LAMBDA c : c.status = "fulfilled")
                 pool      == IF Len(fulfilled) > 0 THEN fulfilled ELSE cards
                 withSlip  == SelectSeq(pool, LAMBDA c : c.slippageBps # Undef)
                 src       == IF Len(withSlip) > 0 THEN withSlip ELSE pool
                 best      == BestByRate(cards, rs, <<>>)
             IN  CASE battleType = "reliability" ->
                        IF best = <<>> THEN NoAgent ELSE best[1].agentId
                   [] battleType = "speed"    -> HeadAgent(SortBy(pool, "latencyMs"))
                   [] battleType = "gas"      -> HeadAgent(SortBy(pool, "gasUsedUsd"))
                   [] battleType = "slippage" -> HeadAgent(SortBy(src, "slippageBps"))
                   [] OTHER -> NoAgent

\* --------------------------------------------------------------- paper bets

\* MIN_BET = 0.001 ETH
MIN_BET == 10

\* MAX_BET = 10.0 ETH
MAX_BET == 100000

\* Number(x) of something that is no number
NaN == -2

\* A nickname string is the record [base, caps, pad, long]: its letters in lower case,
\* whether it has upper-case letters, whether white space surrounds it, and whether
\* it is longer than 40 characters.
Trim(nickname) == [nickname EXCEPT !.pad = FALSE]

\* a comparison of the nicknames as they are written
ToLowerCaseKeeps(nickname) == nickname

ToLowerCase(nickname) == [nickname EXCEPT !.caps = FALSE]

getBetsForBattle(bets, battleId) == SelectSeq(bets, LAMBDA b : b.battleId = battleId)

getResultsForBattle(results, battleId) == SelectSeq(results, LAMBDA r : r.battleId = battleId)

\* placeBet: the new bet list and event log
placeBet(bets, evs, battleId, nickname, agentId, amountEth) ==
    LET bet == [id |-> Len(bets) + 1, battleId |-> battleId, nickname |-> nickname,
                agentId |-> agentId, amountEth |-> amountEth]
        ev1 == emitEvent(evs, "paperbet_placed",
                         [betId |-> bet.id, battleId |-> battleId, nickname |-> nickname,
                          agentId |-> agentId, amountEth |-> amountEth])
        ev2 == emitEvent(ev1, "participation_update",
                         [battleId |-> battleId, nickname |-> nickname,
                          agentId |-> agentId, amountEth |-> amountEth])
    IN  [paperBets |-> Append(bets, bet), events |-> ev2]

\* bets.reduce((s, b) => s + b.amountEth, 0)
RECURSIVE SumAmounts(_)
SumAmounts(bets) == IF bets = <<>> THEN 0 ELSE bets[1].amountEth + SumAmounts(Tail(bets))

\* the payout booked where the profit belongs: a winner keeps the stake on top
BetResultPayout(bet, battleId, winnerAgentId, winnersPool, losersPool) ==
    LET won    == bet.agentId = winnerAgentId
        pnlEth == IF won /\ winnersPool > 0
                  THEN bet.amountEth + r4(bet.amountEth * losersPool, winnersPool)
                  ELSE -bet.amountEth
    IN  [betId |-> bet.id, battleId |-> battleId, nickname |-> bet.nickname,
         agentId |-> bet.agentId, amountEth |-> bet.amountEth, pnlEth |-> pnlEth,
         roiPct |-> r1(pnlEth * 100, bet.amountEth), won |-> won]

\* the result of one bet (the callback of bets.map)
BetResult(bet, battleId, winnerAgentId, winnersPool, losersPool) ==
    LET won    == bet.agentId = winnerAgentId
        pnlEth == IF won /\ winnersPool > 0
                  THEN r4(bet.amountEth * losersPool, winnersPool)
                  ELSE -bet.amountEth
    IN  [betId |-> bet.id, battleId |-> battleId, nickname |-> bet.nickname,
         agentId |-> bet.agentId, amountEth |-> bet.amountEth, pnlEth |-> pnlEth,
         roiPct |-> r1(pnlEth * 100, bet.amountEth), won |-> won]

\* the record getOrCreate makes for a new nickname
NewStats ==
    [totalPnl |-> 0, totalBets |-> 0, wins |-> 0, totalWagered |-> 0,
     biggestWin |-> 0, biggestLoss |-> 0, currentStreak |-> 0]

getOrCreate(stats, nickname) ==
    IF nickname \in DOMAIN stats THEN stats[nickname] ELSE NewStats

Abs(n) == IF n < 0 THEN -n ELSE n

\* the streak counted without the reset at a change of sign
UpdateStatsNoReset(st, res) ==
    LET base == [st EXCEPT !.totalPnl     = r4(st.totalPnl + res.pnlEth, 1),
                           !.totalBets    = @ + 1,
                           !.totalWagered = r3(st.totalWagered + res.amountEth)]
    IN  IF res.won
        THEN [base EXCEPT !.wins          = @ + 1,
                          !.biggestWin    = IF res.pnlEth > @ THEN res.pnlEth ELSE @,
                          !.currentStreak = @ + 1]
        ELSE [base EXCEPT !.biggestLoss   = IF Abs(res.pnlEth) > @ THEN Abs(res.pnlEth) ELSE @,
                          !.currentStreak = @ - 1]

\* one turn of the loop that updates the per-nickname stats
UpdateStats(st, res) ==
    LET base == [st EXCEPT !.totalPnl     = r4(st.totalPnl + res.pnlEth, 1),
                           !.totalBets    = @ + 1,
                           !.totalWagered = r3(st.totalWagered + res.amountEth)]
    IN  IF res.won
        THEN [base EXCEPT !.wins          = @ + 1,
                          !.biggestWin    = IF res.pnlEth > @ THEN res.pnlEth ELSE @,
                          !.currentStreak = IF @ >= 0 THEN @ + 1 ELSE 1]
        ELSE [base EXCEPT !.biggestLoss   = IF Abs(res.pnlEth) > @ THEN Abs(res.pnlEth) ELSE @,
                          !.currentStreak = IF @ <= 0 THEN @ - 1 ELSE -1]

RECURSIVE UpdateAllStats(_, _)
UpdateAllStats(stats, results) ==
    IF results = <<>> THEN stats
    ELSE LET res == results[1]
             upd == UpdateStats(getOrCreate(stats, res.nickname), res)
         IN  UpdateAllStats([n \in DOMAIN stats \cup {res.nickname} |->
                                IF n = res.nickname THEN upd ELSE stats[n]],
                            Tail(results))

\* the idempotence guard lost: a resolved battle is computed again
NeverResolved(existing) == FALSE

\* if (existing.length > 0) return existing
AlreadyResolved(existing) == Len(existing) > 0

\* resolvePaperBets: what it returns and the stores after it
resolvePaperBets(bets, results, stats, evs, battleId, winnerAgentId) ==
    LET existing    == getResultsForBattle(results, battleId)
        mine        == getBetsForBattle(bets, battleId)
        totalPool   == SumAmounts(mine)
        winnersPool == SumAmounts(SelectSeq(mine, LAMBDA b : b.agentId = winnerAgentId))
        losersPool  == totalPool - winnersPool
        fresh       == [i \in DOMAIN mine |->
                          BetResult(mine[i], battleId, winnerAgentId, winnersPool, losersPool)]
        unchanged   == [paperResults |-> results, nicknameStats |-> stats, events |-> evs]
    IN  IF AlreadyResolved(existing) THEN [ret |-> existing] @@ unchanged
        ELSE IF Len(mine) = 0 THEN [ret |-> <<>>] @@ unchanged
        ELSE [ret           |-> fresh,
              paperResults  |-> results \o fresh,
              nicknameStats |-> UpdateAllStats(stats, fresh),
              events        |-> emitEvent(evs, "paperbet_resolved",
                                    [battleId |-> battleId, winnerAgentId |-> winnerAgentId,
                                     totalPool |-> totalPool, results |-> fresh])]

\* ----------------------------------------------------------------- agents

\* PROFILES: two samples of each uniform range, <<low, high>>; gas in 0.001 USD
ProfileLatencyMs ==
    [safe |-> <<800, 2400>>, fast |-> <<120, 600>>, cheap |-> <<1200, 2400>>]

ProfileGasUsedUsd ==
    [safe |-> <<400, 800>>, fast |-> <<550, 1100>>, cheap |-> <<120, 380>>]

ProfileSlippageBps ==
    [safe |-> <<5, 30>>, fast |-> <<20, 120>>, cheap |-> <<8, 30>>]

\* AGENT_POLICY[agentId].slippageBps
PolicySlippageBps == [safe |-> 50, fast |-> 150, cheap |-> 30]

\* the outcomes runAgent can draw for an agent: either status, with the low or the
\* high sample of the three ranges
AgentOutcomes(agentId) ==
    {[status      |-> st,
      latencyMs   |-> ProfileLatencyMs[agentId][k],
      gasUsedUsd  |-> ProfileGasUsedUsd[agentId][k],
      slippageBps |-> ProfileSlippageBps[agentId][k]] :
        st \in {"fulfilled", "failed"}, k \in {1, 2}}

\* ------------------------------------------------------------- the store

\* the mutable stores as one record, so that a handler is a function on it
Store ==
    [receipts |-> receipts, events |-> events, battles |-> battles,
     currentBattleId |-> currentBattleId, streamEvents |-> streamEvents, jobs |-> jobs,
     paperBets |-> paperBets, paperResults |-> paperResults,
     nicknameStats |-> nicknameStats, nextBattleId |-> nextBattleId,
     predictionCalls |-> predictionCalls, lastResolve |-> lastResolve]

\* the loop of emitEvent over sseClients, for the events a handler emitted in
\* turn: each is written to every response that is still registered
Broadcast(clients, emitted) ==
    [c \in DOMAIN clients |->
        IF clients[c].open THEN [clients[c] EXCEPT !.written = @ \o emitted] ELSE clients[c]]

\* the next state holds the stores S
CommitStores(S) ==
    /\ sseClients' = Broadcast(sseClients, SubSeq(S.events, Len(events) + 1, Len(S.events)))
    /\ receipts' = S.receipts
    /\ events' = S.events
    /\ battles' = S.battles
    /\ currentBattleId' = S.currentBattleId
    /\ streamEvents' = S.streamEvents
    /\ jobs' = S.jobs
    /\ paperBets' = S.paperBets
    /\ paperResults' = S.paperResults
    /\ nicknameStats' = S.nicknameStats
    /\ nextBattleId' = S.nextBattleId
    /\ predictionCalls' = S.predictionCalls
    /\ lastResolve' = S.lastResolve

\* the next state holds the stores S; the environment stays
Commit(S) ==
    /\ CommitStores(S)
    /\ UNCHANGED <<mode, nodeEnv, autoResolve, response, aqiCall, escrow>>

\* no request counted yet
NoResponse == [n |-> 0, status |-> 0]

\* computeAQI not called
NoAqi == [receipts |-> <<>>, result |-> <<>>]

\* the accounts calling the contract, the first of them its deployer, and the
\* battle ids they use
EscrowOwner == "owner"

EscrowAccounts == {EscrowOwner, "alice", "bob"}

EscrowBattleIds == {1, 2}

\* the zero values of the contract's structs
NoPrediction == [agentId |-> 0, amount |-> 0, withdrawn |-> FALSE, pointsClaimed |-> FALSE]

NoBattleInfo == [exists |-> FALSE, resolved |-> FALSE, winnerAgentId |-> 0]

\* the latest transaction sent to the contract and whether it succeeded
NoCall ==
    [fn |-> "constructor", sender |-> EscrowOwner, value |-> 0, battleId |-> 0, agentId |-> 0,
     ok |-> TRUE]

\* the contract after its constructor: owner = msg.sender, _locked = 1, empty
\* mappings; sent[b][u] is the ether withdraw(b) has transferred to u
Deployed ==
    [owner |-> EscrowOwner,
     locked |-> 1,
     battleTotals |-> [b \in EscrowBattleIds |-> [a \in 0..2 |-> 0]],
     points |-> [u \in EscrowAccounts |-> 0],
     battles |-> [b \in EscrowBattleIds |-> NoBattleInfo],
     predictions |-> [b \in EscrowBattleIds |-> [u \in EscrowAccounts |-> NoPrediction]],
     balance |-> 0,
     sent |-> [b \in EscrowBattleIds |-> [u \in EscrowAccounts |-> <<>>]],
     call |-> NoCall]

\* a request is answered with the status, the stores being S after its handler
Reply(S, status) ==
    /\ CommitStores(S)
    /\ response' = [n |-> response.n + 1, status |-> status]
    /\ UNCHANGED <<mode, nodeEnv, autoResolve, aqiCall, escrow>>

\* a call of resolvePaperBets by the arena or by the route, applied to the stores;
\* lastResolve records the arguments and the return value of the call, the number
\* of calls so far and how many of them came through the route
CallResolvePaperBets(S, battleId, winnerAgentId) ==
    LET r == resolvePaperBets(S.paperBets, S.paperResults, S.nicknameStats, S.events,
                              battleId, winnerAgentId)
    IN  [S EXCEPT !.paperResults  = r.paperResults,
                  !.nicknameStats = r.nicknameStats,
                  !.events        = r.events,
                  !.lastResolve   = [n |-> @.n + 1, routeCalls |-> @.routeCalls,
                                     battleId |-> battleId,
                                     winnerAgentId |-> winnerAgentId, ret |-> r.ret]]

\* ------------------------------------------------------------ job pipeline

\* a gate that looks at the swap parameters alone
StageGateAnyMode(m, swapParams) == swapParams

\* the condition of runJob under which the quote and build stages run
StageGate(m, swapParams) == m \in {"quote", "real"} /\ swapParams

\* runJob up to its first await: the queued and running events, and the stage it
\* waits in (the quote when the mode is quote or real and swapParams are given,
\* runAgent otherwise)
RunJobStart(S, m, jobId, agentId, jobType, swapParams, battleId, battleType) ==
    LET ev1 == emitEvent(S.events, "queued",
                   [jobId |-> jobId, agentId |-> agentId, jobType |-> jobType,
                    mode |-> m, swapParams |-> swapParams, battleId |-> battleId])
        ev2 == emitEvent(ev1, "running",
                   [jobId |-> jobId, agentId |-> agentId, mode |-> m,
                    battleId |-> battleId])
        job == [jobId |-> jobId, agentId |-> agentId, jobType |-> jobType,
                swapParams |-> swapParams, battleId |-> battleId,
                battleType |-> battleType,
                pc |-> IF StageGate(m, swapParams) THEN "quote" ELSE "agent",
                quoteResult |-> FALSE, swapTxRequest |-> FALSE, onChain |-> <<>>]
    IN  [S EXCEPT !.events = ev2, !.jobs = Append(@, job)]

\* a join that fires with the first job of the battle to settle (Promise.race)
FirstSettled(js, battleId) ==
    \E j \in DOMAIN js :
        js[j].battleId = battleId /\ js[j].pc \in {"returned", "thrown"}

\* Promise.allSettled(jobPromises): every job of the battle has returned or thrown
AllSettled(js, battleId) ==
    \A j \in DOMAIN js :
        js[j].battleId = battleId => js[j].pc \in {"returned", "thrown"}

\* a continuation that resolves the paper bets before it finalizes the battle
AfterBattleJobsResolvesFirst(S, battleId, battleType) ==
    LET winner == determineWinner(S.battles, S.receipts, battleId, battleType)
        S1     == IF winner # NoAgent THEN CallResolvePaperBets(S, battleId, winner) ELSE S
        bs     == finalizeBattle(S1.battles, battleId, winner)
        bi     == getBattle(bs, battleId)
        evs    == emitEvent(S1.events, "battle_complete",
                      [battleId |-> battleId, battleType |-> battleType,
                       winnerAgentId |-> winner,
                       scorecards |-> IF bi = 0 THEN <<>> ELSE bs[bi].scorecards])
        S2     == [S1 EXCEPT !.battles = bs, !.events = evs]
    IN  IF winner # NoAgent /\ autoResolve
        THEN [S2 EXCEPT !.predictionCalls =
                            @ \cup {[battleId |-> battleId, winnerAgentId |-> winner]}]
        ELSE S2

\* what a battle handler does after `await runBattleJobs`: the winner, the
\* finalization, the battle_complete event, the paper bets and the escrow call
AfterBattleJobs(S, battleId, battleType) ==
    LET winner == determineWinner(S.battles, S.receipts, battleId, battleType)
        bs     == finalizeBattle(S.battles, battleId, winner)
        bi     == getBattle(bs, battleId)
        evs    == emitEvent(S.events, "battle_complete",
                      [battleId |-> battleId, battleType |-> battleType,
                       winnerAgentId |-> winner,
                       scorecards |-> IF bi = 0 THEN <<>> ELSE bs[bi].scorecards])
        S1     == [S EXCEPT !.battles = bs, !.events = evs]
        S2     == IF winner # NoAgent THEN CallResolvePaperBets(S1, battleId, winner) ELSE S1
    IN  IF winner # NoAgent /\ autoResolve
        THEN [S2 EXCEPT !.predictionCalls =
                            @ \cup {[battleId |-> battleId, winnerAgentId |-> winner]}]
        ELSE S2

\* the callback of agentIds.map after runJob settled, followed by the handler's
\* continuation when this was the last job of the battle to settle
AfterRunJob(S, j, patch) ==
    LET job == S.jobs[j]
        S1  == [S EXCEPT !.battles =
                            updateBattleScorecard(@, job.battleId, job.agentId, patch)]
    IN  IF job.battleId = Undef THEN S
        ELSE IF AllSettled(S1.jobs, job.battleId)
             THEN AfterBattleJobs(S1, job.battleId, job.battleType)
             ELSE S1

\* a stage failure that reaches the generic catch alone: one failed event, no label
StageThrowsUntagged(S, j, phase) ==
    LET job == S.jobs[j]
        ev  == emitEvent(S.events, "failed",
                   [jobId |-> j, agentId |-> job.agentId, phase |-> "",
                    battleId |-> job.battleId])
        S1  == [S EXCEPT !.events = ev, !.jobs[j].pc = "thrown"]
    IN  AfterRunJob(S1, j, [status |-> "failed"])

\* a stage threw: the failed event of the stage, then the generic catch of runJob
\* emits failed again and rethrows to the caller
StageThrows(S, j, phase) ==
    LET job == S.jobs[j]
        ev1 == emitEvent(S.events, "failed",
                   [jobId |-> j, agentId |-> job.agentId, phase |-> phase,
                    battleId |-> job.battleId])
        ev2 == emitEvent(ev1, "failed",
                   [jobId |-> j, agentId |-> job.agentId, phase |-> "",
                    battleId |-> job.battleId])
        S1  == [S EXCEPT !.events = ev2, !.jobs[j].pc = "thrown"]
    IN  AfterRunJob(S1, j, [status |-> "failed"])

\* runBattleJobs up to its first await: for each agent in turn a job id, the
\* battle jobs that are given swap parameters, and so broadcast in real mode
RECURSIVE StartBattleJobsWithSwap(_, _, _, _, _)
StartBattleJobsWithSwap(S, m, battleId, battleType, agentIds) ==
    IF agentIds = <<>> THEN S
    ELSE LET jobId == Len(S.jobs) + 1
             S1 == [S EXCEPT !.battles =
                        updateBattleScorecard(@, battleId, agentIds[1],
                                              [jobId |-> jobId, status |-> "running"])]
             S2 == RunJobStart(S1, m, jobId, agentIds[1], "swap", TRUE, battleId, battleType)
         IN  StartBattleJobsWithSwap(S2, m, battleId, battleType, Tail(agentIds))

\* scorecard set to running and runJob started (no swapParams are passed)
RECURSIVE StartBattleJobs(_, _, _, _, _)
StartBattleJobs(S, m, battleId, battleType, agentIds) ==
    IF agentIds = <<>> THEN S
    ELSE LET jobId == Len(S.jobs) + 1
             S1 == [S EXCEPT !.battles =
                        updateBattleScorecard(@, battleId, agentIds[1],
                                              [jobId |-> jobId, status |-> "running"])]
             S2 == RunJobStart(S1, m, jobId, agentIds[1], "swap", FALSE, battleId, battleType)
         IN  StartBattleJobs(S2, m, battleId, battleType, Tail(agentIds))

runBattleJobs(S, m, battleId, battleType, agentIds) ==
    LET S1 == StartBattleJobs(S, m, battleId, battleType, agentIds)
    IN  IF agentIds = <<>> THEN AfterBattleJobs(S1, battleId, battleType) ELSE S1

\* ------------------------------------------------------ stream reconciliation

\* MAX_STREAM_EVENTS is 5000 in store.ts; scaled down so that eviction happens
MAX_STREAM_EVENTS == 2

\* a comparison that tells upper-case hex digits from lower-case ones
HashAsWritten(txHash) == txHash

\* A transaction hash string is the record [id, uc]: which transaction it names and
\* whether it is written with upper-case hex digits; id 0 is the empty string.
HashToLower(txHash) == [txHash EXCEPT !.uc = FALSE]

EmptyHash == [id |-> 0, uc |-> FALSE]

\* a buffer that refuses the new entry when it is full
addStreamEventDropsNewest(ses, event) ==
    IF Len(ses) >= MAX_STREAM_EVENTS THEN ses ELSE Append(ses, event)

addStreamEvent(ses, event) ==
    LET pushed == Append(ses, event)
    IN  IF Len(pushed) > MAX_STREAM_EVENTS
        THEN SubSeq(pushed, Len(pushed) - MAX_STREAM_EVENTS + 1, Len(pushed))
        ELSE pushed

\* index of the receipt receipts.find returns, 0 for undefined
findReceiptByTxHash(rs, txHash) ==
    FirstIndex({i \in DOMAIN rs :
                  /\ rs[i].onChain # <<>>
                  /\ HashToLower(rs[i].onChain[1].txHash) = HashToLower(txHash)})

\* a reconciliation that also takes the gas of the outcome from the record
applyStreamConfirmationRewrites(S, ri, gasUsed, evmStatus) ==
    LET r   == S.receipts[ri]
        oc  == IF r.onChain # <<>>
               THEN <<[r.onChain[1] EXCEPT
                          !.gasUsed    = gasUsed,
                          !.status     = IF evmStatus = "success" THEN "success" ELSE "reverted",
                          !.verifiedBy = "quicknode"]>>
               ELSE r.onChain
        r1_ == [r EXCEPT !.onChain = oc,
                         !.outcome.status =
                             IF evmStatus = "success" THEN "fulfilled" ELSE "failed",
                         !.outcome.gasUsedUsd = 0]
    IN  [S EXCEPT !.receipts[ri] = r1_]

\* a reverted record read as "flip the status" where the status is assigned
applyStreamConfirmationFlips(S, ri, gasUsed, evmStatus) ==
    LET r   == S.receipts[ri]
        oc  == IF r.onChain # <<>>
               THEN <<[r.onChain[1] EXCEPT
                          !.gasUsed    = gasUsed,
                          !.status     = IF evmStatus = "success" THEN "success" ELSE "reverted",
                          !.verifiedBy = "quicknode"]>>
               ELSE r.onChain
        r1_ == [r EXCEPT !.onChain = oc,
                         !.outcome.status =
                             IF evmStatus = "success" THEN "fulfilled"
                             ELSE IF @ = "fulfilled" THEN "failed" ELSE "fulfilled"]
    IN  [S EXCEPT !.receipts[ri] = r1_]

\* applyStreamConfirmation on the receipt at index ri
applyStreamConfirmation(S, ri, gasUsed, evmStatus) ==
    LET r   == S.receipts[ri]
        oc  == IF r.onChain # <<>>
               THEN <<[r.onChain[1] EXCEPT
                          !.gasUsed    = gasUsed,
                          !.status     = IF evmStatus = "success" THEN "success" ELSE "reverted",
                          !.verifiedBy = "quicknode"]>>
               ELSE r.onChain
        r1_ == [r EXCEPT !.onChain = oc,
                         !.outcome.status =
                             IF evmStatus = "success" THEN "fulfilled" ELSE "failed"]
        S1  == [S EXCEPT !.receipts[ri] = r1_]
    IN  IF r.battleId # Undef
        THEN [S1 EXCEPT !.battles =
                 updateBattleScorecard(@, r.battleId, r.agentId, [verifiedByStream |-> TRUE])]
        ELSE S1

\* one entry of the webhook's loop over payload.swaps
IngestSwap(S, swap) ==
    LET ri == findReceiptByTxHash(S.receipts, swap.txHash)
        S1 == IF ri # 0 THEN applyStreamConfirmation(S, ri, swap.gasUsed, swap.status) ELSE S
        ev == [id |-> <<swap.txHash, swap.logIndex>>, txHash |-> swap.txHash,
               gasUsed |-> swap.gasUsed, status |-> swap.status, source |-> "quicknode",
               matchedJobId |-> IF ri # 0 THEN S.receipts[ri].jobId ELSE Undef]
    IN  IF swap.txHash = EmptyHash THEN S
        ELSE [S1 EXCEPT !.streamEvents = addStreamEvent(@, ev),
                        !.events = emitEvent(@, "stream_event", ev)]

RECURSIVE IngestSwaps(_, _)
IngestSwaps(S, swaps) ==
    IF swaps = <<>> THEN S ELSE IngestSwaps(IngestSwap(S, swaps[1]), Tail(swaps))

\* ------------------------------------------------------------------ actions

NoResolve ==
    [n |-> 0, routeCalls |-> 0, battleId |-> Undef, winnerAgentId |-> NoAgent, ret |-> <<>>]

\* POST /arena/admin/open
PostArenaAdminOpen(tokenOk, battleType, rawIds) ==
    /\ tokenOk
    /\ Includes(VALID_TYPES, battleType)
    /\ \A i \in DOMAIN rawIds : Includes(VALID_AGENTS, rawIds[i])
    /\ LET battleId == nextBattleId + 1
           S == Store
       IN  Commit([S EXCEPT
               !.nextBattleId = battleId,
               !.battles = addBattle(@, NewBattle(battleId, battleType, rawIds, "lobby")),
               !.currentBattleId = battleId,
               !.events = emitEvent(@, "battle_open",
                              [battleId |-> battleId, battleType |-> battleType,
                               agentIds |-> rawIds])])

\* a run handler that starts the current battle whatever its status
InAnyStatus(battle) == TRUE

\* if (battle.status !== "lobby") the run is refused with 409
InLobby(battle) == battle.status = "lobby"

\* POST /arena/admin/run
PostArenaAdminRun(tokenOk) ==
    /\ tokenOk
    /\ currentBattleId # Undef
    /\ getBattle(battles, currentBattleId) # 0
    /\ LET battle == battles[getBattle(battles, currentBattleId)]
           S == Store
       IN  /\ InLobby(battle)
           /\ Commit(runBattleJobs(
                   [S EXCEPT !.battles = startBattle(@, currentBattleId)],
                   mode, currentBattleId, battle.battleType, battle.agentIds))

\* a handler that stores the battle record before it parses the swap parameters
BattleHandlerRecordsFirst(S, m, proofOk, battleType, rawIds, rawSwap) ==
    LET battleId == S.nextBattleId + 1
        S1 == [S EXCEPT
                  !.nextBattleId = battleId,
                  !.battles = addBattle(@, NewBattle(battleId, battleType, rawIds, "running"))]
    IN  IF ~proofOk THEN [status |-> 402, store |-> S]
        ELSE IF ~Includes(VALID_TYPES, battleType) THEN [status |-> 400, store |-> S]
        ELSE IF Len(rawIds) < 2 \/ Len(rawIds) > 3 THEN [status |-> 400, store |-> S]
        ELSE IF \E i \in DOMAIN rawIds : ~Includes(VALID_AGENTS, rawIds[i])
             THEN [status |-> 400, store |-> S]
        ELSE IF rawSwap = "invalid" THEN [status |-> 400, store |-> S1]
        ELSE [status |-> 202,
              store  |-> runBattleJobs(S1, m, battleId, battleType, rawIds)]

\* POST /arena/battle; rawSwap is "absent", "valid" or "invalid"
BattleHandler(S, m, proofOk, battleType, rawIds, rawSwap) ==
    LET battleId == S.nextBattleId + 1
    IN  IF ~proofOk THEN [status |-> 402, store |-> S]
        ELSE IF ~Includes(VALID_TYPES, battleType) THEN [status |-> 400, store |-> S]
        ELSE IF Len(rawIds) < 2 \/ Len(rawIds) > 3 THEN [status |-> 400, store |-> S]
        ELSE IF \E i \in DOMAIN rawIds : ~Includes(VALID_AGENTS, rawIds[i])
             THEN [status |-> 400, store |-> S]
        ELSE IF rawSwap = "invalid" THEN [status |-> 400, store |-> S]
        ELSE [status |-> 202,
              store  |-> runBattleJobs(
                  [S EXCEPT
                      !.nextBattleId = battleId,
                      !.battles = addBattle(@, NewBattle(battleId, battleType, rawIds,
                                                         "running"))],
                  m, battleId, battleType, rawIds)]

\* POST /arena/battle, accepted
PostArenaBattle(proofOk, battleType, rawIds, rawSwap) ==
    LET r == BattleHandler(Store, mode, proofOk, battleType, rawIds, rawSwap)
    IN  r.status = 202 /\ Commit(r.store)

OBJECTIVE_TO_AGENT == [safest |-> "safe", fastest |-> "fast", cheapest |-> "cheap"]

\* POST /jobs; rawSwap is "absent", "valid" or "invalid"
JobsHandler(S, m, jobType, objective, rawSwap) ==
    IF jobType \notin {"swap", "paid_call"} THEN [status |-> 400, store |-> S]
    ELSE IF objective \notin DOMAIN OBJECTIVE_TO_AGENT THEN [status |-> 400, store |-> S]
    ELSE IF jobType = "swap" /\ m # "sim" /\ rawSwap # "valid"
         THEN [status |-> 400, store |-> S]
    ELSE [status |-> 202,
          store  |-> RunJobStart(S, m, Len(S.jobs) + 1, OBJECTIVE_TO_AGENT[objective],
                                 jobType, jobType = "swap" /\ m # "sim", Undef, "")]

\* POST /jobs, accepted
PostJobs(jobType, objective, rawSwap) ==
    LET r == JobsHandler(Store, mode, jobType, objective, rawSwap)
    IN  r.status = 202 /\ Commit(r.store)

\* getSwapQuote resolves
QuoteReturns(j) ==
    /\ jobs[j].pc = "quote"
    /\ Commit([Store EXCEPT !.jobs[j].quoteResult = TRUE, !.jobs[j].pc = "build"])

\* getSwapQuote rejects
QuoteThrows(j) ==
    /\ jobs[j].pc = "quote"
    /\ Commit(StageThrows(Store, j, "uniswap_quote"))

\* buildSwapTx resolves
BuildReturns(j) ==
    /\ jobs[j].pc = "build"
    /\ Commit([Store EXCEPT !.jobs[j].swapTxRequest = TRUE,
                            !.jobs[j].pc = IF mode = "real" THEN "send" ELSE "agent"])

\* buildSwapTx rejects
BuildThrows(j) ==
    /\ jobs[j].pc = "build"
    /\ Commit(StageThrows(Store, j, "uniswap_tx_build"))

\* runJob from the return of sendTx to the await of runAgent: the tx_submitted
\* and tx_confirmed events and the on-chain evidence kept for the receipt
SendTxStep(S, j, evmStatus) ==
    LET txHash == [id |-> j, uc |-> FALSE]
        ev1 == emitEvent(S.events, "tx_submitted",
                   [jobId |-> j, agentId |-> S.jobs[j].agentId, txHash |-> txHash,
                    battleId |-> S.jobs[j].battleId])
        ev2 == emitEvent(ev1, "tx_confirmed",
                   [jobId |-> j, agentId |-> S.jobs[j].agentId, txHash |-> txHash,
                    status |-> evmStatus, gasUsed |-> "21000",
                    battleId |-> S.jobs[j].battleId])
    IN  [S EXCEPT
            !.events = ev2,
            !.jobs[j].onChain = <<[txHash |-> txHash, gasUsed |-> "21000",
                                   status |-> evmStatus, verifiedBy |-> ""]>>,
            !.jobs[j].pc = "agent"]

\* sendTx resolves with the confirmed transaction: its hash, gas and EVM status
SendTxReturns(j, evmStatus) ==
    /\ jobs[j].pc = "send"
    /\ Commit(SendTxStep(Store, j, evmStatus))

\* sendTx rejects, while sending or while waiting for the transaction receipt
SendTxThrows(j, phase) ==
    /\ jobs[j].pc = "send"
    /\ phase \in {"base_send_tx", "base_confirm_tx"}
    /\ Commit(StageThrows(Store, j, phase))

\* an outcome whose status follows the broadcast transaction's
ReceiptOutcomeFromChain(m, job, outcome) ==
    LET o == IF m # "sim"
             THEN [outcome EXCEPT !.slippageBps = PolicySlippageBps[job.agentId]]
             ELSE outcome
    IN  IF job.onChain # <<>>
        THEN [o EXCEPT !.status =
                 IF job.onChain[1].status = "success" THEN "fulfilled" ELSE "failed"]
        ELSE o

\* the outcome of the receipt runJob stores: what runAgent returned, with the
\* policy's slippage outside sim mode
ReceiptOutcome(m, job, outcome) ==
    IF m # "sim"
    THEN [outcome EXCEPT !.slippageBps = PolicySlippageBps[job.agentId]]
    ELSE outcome

\* runJob from the return of runAgent to its own return: the receipt (with the
\* policy's slippage outside sim mode), addReceipt, the final event; then the
\* caller's continuation
RunAgentStep(S, m, j, outcome) ==
    LET job == S.jobs[j]
        receipt ==
            [jobId |-> j, agentId |-> job.agentId, battleId |-> job.battleId,
             outcome |-> ReceiptOutcome(m, job, outcome),
             swapParams |-> job.swapParams, quoteResult |-> job.quoteResult,
             swapTxRequest |-> job.swapTxRequest, onChain |-> job.onChain]
        S1 == [S EXCEPT
                  !.receipts = addReceipt(@, receipt),
                  !.events = emitEvent(@, receipt.outcome.status,
                                 [jobId |-> j, agentId |-> job.agentId, mode |-> m,
                                  outcome |-> receipt.outcome, onChain |-> receipt.onChain,
                                  battleId |-> job.battleId]),
                  !.jobs[j].pc = "returned"]
    IN  AfterRunJob(S1, j,
            [jobId       |-> j,
             status      |-> receipt.outcome.status,
             latencyMs   |-> receipt.outcome.latencyMs,
             gasUsedUsd  |-> receipt.outcome.gasUsedUsd,
             slippageBps |-> receipt.outcome.slippageBps,
             quotedOut   |-> IF receipt.quoteResult THEN 1 ELSE Undef])

\* runAgent resolves with an outcome
RunAgentReturns(j, outcome) ==
    /\ jobs[j].pc = "agent"
    /\ outcome \in AgentOutcomes(jobs[j].agentId)
    /\ Commit(RunAgentStep(Store, mode, j, outcome))

\* an escrow failure that takes the winner back from the battle record
ResolvePredictionRollsBack(call, ok) ==
    /\ call \in predictionCalls
    /\ LET S  == [Store EXCEPT !.predictionCalls = @ \ {call}]
           bi == getBattle(S.battles, call.battleId)
       IN  IF ok
           THEN Commit([S EXCEPT
                   !.battles = IF bi = 0 THEN @
                               ELSE [@ EXCEPT ![bi].resolveTxHash = call.battleId],
                   !.events = emitEvent(@, "prediction_resolved",
                                  [battleId |-> call.battleId,
                                   winnerAgentId |-> call.winnerAgentId])])
           ELSE Commit([S EXCEPT
                   !.battles = IF bi = 0 THEN @
                               ELSE [@ EXCEPT ![bi].winnerAgentId = NoAgent]])

\* the promise of resolvePredictionBattle settles: with a transaction hash the
\* battle record, if still stored, gets it and prediction_resolved is emitted
ResolvePredictionSettles(call, ok) ==
    /\ call \in predictionCalls
    /\ LET S  == [Store EXCEPT !.predictionCalls = @ \ {call}]
           bi == getBattle(S.battles, call.battleId)
       IN  IF ok
           THEN Commit([S EXCEPT
                   !.battles = IF bi = 0 THEN @
                               ELSE [@ EXCEPT ![bi].resolveTxHash = call.battleId],
                   !.events = emitEvent(@, "prediction_resolved",
                                  [battleId |-> call.battleId,
                                   winnerAgentId |-> call.winnerAgentId])])
           ELSE Commit(S)

\* POST /paperbets/place; battleId 0 is the empty string
PlaceHandler(S, battleId, nickname, agentId, amountEth) ==
    LET mine == getBetsForBattle(S.paperBets, battleId)
        r    == placeBet(S.paperBets, S.events, battleId, Trim(nickname), agentId, amountEth)
    IN  IF battleId = 0 THEN [status |-> 400, store |-> S]
        ELSE IF Trim(nickname).base = "" \/ nickname.long THEN [status |-> 400, store |-> S]
        ELSE IF ~Includes(VALID_AGENTS, agentId) THEN [status |-> 400, store |-> S]
        ELSE IF amountEth = NaN \/ amountEth < MIN_BET \/ amountEth > MAX_BET
             THEN [status |-> 400, store |-> S]
        ELSE IF \E i \in DOMAIN mine :
                   ToLowerCase(mine[i].nickname) = ToLowerCase(Trim(nickname))
             THEN [status |-> 409, store |-> S]
        ELSE [status |-> 201,
              store  |-> [S EXCEPT !.paperBets = r.paperBets, !.events = r.events]]

\* POST /paperbets/place, accepted
PostPaperbetsPlace(battleId, nickname, agentId, amountEth) ==
    LET r == PlaceHandler(Store, battleId, nickname, agentId, amountEth)
    IN  r.status = 201 /\ Commit(r.store)

\* POST /paperbets/resolve
PostPaperbetsResolve(battleId, winnerAgentId) ==
    /\ battleId # 0
    /\ Includes(VALID_AGENTS, winnerAgentId)
    /\ Commit([CallResolvePaperBets(Store, battleId, winnerAgentId) EXCEPT
                  !.lastResolve.routeCalls = @ + 1])

\* POST /webhooks/quicknode with a body whose swaps are the given list
PostWebhooksQuicknode(signatureOk, swaps) ==
    /\ signatureOk
    /\ swaps # <<>>
    /\ Commit(IngestSwaps(Store, swaps))

\* the handler of POST /webhooks/quicknode: the status it answers with and the
\* stores it leaves; signature is what verifySignature is given for the body
\* ("missing": no header, "wrong": another body's or another key's, "valid")
WebhooksHandler(S, secretSet, signature, swaps) ==
    IF ~secretSet THEN [status |-> 500, store |-> S]
    ELSE IF signature = "missing" THEN [status |-> 401, store |-> S]
    ELSE IF signature # "valid" THEN [status |-> 401, store |-> S]
    ELSE IF swaps = <<>> THEN [status |-> 200, store |-> S]
    ELSE [status |-> 200, store |-> IngestSwaps(S, swaps)]

\* POST /webhooks/quicknode, any request
RequestWebhooksQuicknode(secretSet, signature, swaps) ==
    LET r == WebhooksHandler(Store, secretSet, signature, swaps)
    IN  Reply(r.store, r.status)

\* a hash drawn at random by the dev endpoint (32 random bytes): no transaction's
\* hash and no hash drawn before
RandomHash(S) == [id |-> 0 - (Len(S.events) + 1), uc |-> FALSE]

\* the body of POST /streams/dev/emit outside production; bodyTxHash is EmptyHash
\* and bodyGasUsed is "" when the body does not give them, pick is the receipt a
\* random choice falls on (ok: the choice is one the code can make)
DevEmit(S, bodyTxHash, logIndex, bodyGasUsed, status, pick) ==
    LET txHash  == IF bodyTxHash # EmptyHash THEN bodyTxHash ELSE RandomHash(S)
        preview == findReceiptByTxHash(S.receipts, txHash)
        gasUsed == IF bodyGasUsed # "" THEN bodyGasUsed
                   ELSE IF preview # 0 THEN S.receipts[preview].onChain[1].gasUsed
                   ELSE "100000"
        withOnChain == {i \in DOMAIN S.receipts : S.receipts[i].onChain # <<>>}
        autoPick == preview = 0 /\ bodyTxHash = EmptyHash /\ withOnChain # {}
        target  == IF autoPick THEN pick ELSE preview
        effectiveTxHash == IF autoPick THEN S.receipts[pick].onChain[1].txHash ELSE txHash
        S1 == IF target # 0 THEN applyStreamConfirmation(S, target, gasUsed, status) ELSE S
        ev == [id |-> <<effectiveTxHash, logIndex>>, txHash |-> effectiveTxHash,
               gasUsed |-> gasUsed, status |-> status, source |-> "dev",
               matchedJobId |-> IF target # 0 THEN S.receipts[target].jobId ELSE Undef]
        ok == IF autoPick THEN pick \in withOnChain ELSE pick = 0
    IN  [ok |-> ok,
         store |-> IF ok THEN [S1 EXCEPT !.streamEvents = addStreamEvent(@, ev),
                                         !.events = emitEvent(@, "stream_event", ev)]
                   ELSE S]

\* POST /streams/dev/emit answered with 200
PostStreamsDevEmit(bodyTxHash, logIndex, bodyGasUsed, status, pick) ==
    LET r == DevEmit(Store, bodyTxHash, logIndex, bodyGasUsed, status, pick)
    IN  /\ nodeEnv # "production"
        /\ r.ok
        /\ Commit(r.store)

\* POST /streams/dev/emit, any request: 404 in production
RequestStreamsDevEmit(bodyTxHash, logIndex, bodyGasUsed, status, pick) ==
    LET r == DevEmit(Store, bodyTxHash, logIndex, bodyGasUsed, status, pick)
    IN  IF nodeEnv = "production"
        THEN pick = 0 /\ Reply(Store, 404)
        ELSE r.ok /\ Reply(r.store, 200)

\* ------------------------------------------------------------------- inputs

Nick(base, caps, pad, long) == [base |-> base, caps |-> caps, pad |-> pad, long |-> long]

StreamCount == Cardinality({i \in DOMAIN events : events[i].type = "stream_event"})

\* the state after construction, for the given environments
InitWith(modes, autoResolves) ==
    /\ mode \in modes
    /\ autoResolve \in autoResolves
    /\ receipts = <<>>
    /\ events = <<>>
    /\ battles = <<>>
    /\ currentBattleId = Undef
    /\ streamEvents = <<>>
    /\ jobs = <<>>
    /\ paperBets = <<>>
    /\ paperResults = <<>>
    /\ nicknameStats = <<>>
    /\ nextBattleId = 0
    /\ predictionCalls = {}
    /\ lastResolve = NoResolve
    /\ response = NoResponse
    /\ sseClients = <<>>
    /\ nodeEnv = "development"
    /\ aqiCall = NoAqi
    /\ escrow = Deployed

\* ----------------------------------------------- specification: the arena

\* battles created in a run of the arena
MaxBattles == 2

ArenaTypeInputs == {"speed", "bogus"}

ArenaListInputs ==
    {<<"safe", "cheap">>, <<"safe", "safe">>, <<"cheap">>, <<"safe", "rogue">>}

\* the outcomes the arena runs draw: either status, the low sample
ArenaOutcomes(agentId) ==
    {o \in AgentOutcomes(agentId) : o.latencyMs = ProfileLatencyMs[agentId][1]}

Init == InitWith({"sim", "quote"}, BOOLEAN)

Next ==
    \/ \E ok \in BOOLEAN, t \in ArenaTypeInputs, ids \in ArenaListInputs :
          nextBattleId < MaxBattles /\ PostArenaAdminOpen(ok, t, ids)
    \/ \E ok \in BOOLEAN : PostArenaAdminRun(ok)
    \/ \E ok \in BOOLEAN, t \in ArenaTypeInputs, ids \in ArenaListInputs,
          sw \in {"absent", "valid", "invalid"} :
          nextBattleId < MaxBattles /\ PostArenaBattle(ok, t, ids, sw)
    \/ \E j \in DOMAIN jobs : \E o \in ArenaOutcomes(jobs[j].agentId) : RunAgentReturns(j, o)
    \/ \E c \in predictionCalls, ok \in BOOLEAN : ResolvePredictionSettles(c, ok)

Spec == Init /\ [][Next]_vars

\* ------------------------------------------- specification: the paper bets

\* battles fought in a run of the paper bets
BetsMaxBattles == 1

\* bets placed in a run
MaxBets == 3

\* calls of POST /paperbets/resolve in a run
MaxResolves == 1

BetNicknameInputs ==
    {Nick("ann", FALSE, FALSE, FALSE), Nick("bob", FALSE, FALSE, FALSE),
     Nick("cat", FALSE, FALSE, FALSE), Nick("", FALSE, TRUE, FALSE),
     Nick("bob", FALSE, FALSE, TRUE), Nick("bob", TRUE, TRUE, FALSE)}

BetAgentInputs == {"safe", "fast", "rogue"}

BetAmountInputs == {10, 15, 5, 100001, NaN}

\* the outcome the battle of the paper-bet runs draws: fulfilled, the low sample
BetsOutcomes(agentId) == {o \in ArenaOutcomes(agentId) : o.status = "fulfilled"}

InitBets == InitWith({"sim"}, {FALSE})

NextBets ==
    \/ \E b \in 0..nextBattleId, n \in BetNicknameInputs, a \in BetAgentInputs,
          amt \in BetAmountInputs :
          Len(paperBets) < MaxBets /\ PostPaperbetsPlace(b, n, a, amt)
    \/ \E b \in 0..nextBattleId, a \in {"safe", "fast", "cheap", "rogue"} :
          lastResolve.routeCalls < MaxResolves /\ PostPaperbetsResolve(b, a)
    \/ nextBattleId < BetsMaxBattles /\ PostArenaBattle(TRUE, "speed", <<"safe", "fast">>, "absent")
    \/ \E j \in DOMAIN jobs : \E o \in BetsOutcomes(jobs[j].agentId) : RunAgentReturns(j, o)

SpecBets == InitBets /\ [][NextBets]_vars

\* ------------------------------------------------ claims on the paper bets

\* the bets and the results of a battle, and the sum of the results' profit/loss
RECURSIVE SumPnl(_)
SumPnl(results) == IF results = <<>> THEN 0 ELSE results[1].pnlEth + SumPnl(Tail(results))

ResolvedBattles == {paperResults[i].battleId : i \in DOMAIN paperResults}

ResultsOf(b) == SelectSeq(paperResults, LAMBDA r : r.battleId = b)

WinnersOf(b) == SelectSeq(paperResults, LAMBDA r : r.battleId = b /\ r.won)

\* a step in which resolvePaperBets is called
ResolveCalled == lastResolve'.n = lastResolve.n + 1

\* C1: a call of resolvePaperBets for a battle that has results already, whatever
\* its winner argument and whoever makes it, returns exactly the stored results of
\* that battle, appends no result and leaves every nickname's aggregates as they were.
C1_Idempotent ==
    [][(ResolveCalled /\ ResultsOf(lastResolve'.battleId) # <<>>)
         => /\ lastResolve'.ret = ResultsOf(lastResolve'.battleId)
            /\ paperResults' = paperResults
            /\ nicknameStats' = nicknameStats]_vars

\* a second call for a resolved battle, with a winner other than the one the
\* results were computed for
C1_Witness ==
    /\ lastResolve.n >= 2
    /\ lastResolve.ret # <<>>
    /\ lastResolve.ret = ResultsOf(lastResolve.battleId)
    /\ \E i \in DOMAIN lastResolve.ret :
          lastResolve.ret[i].won # (lastResolve.ret[i].agentId = lastResolve.winnerAgentId)

ResultsStored == ResolveCalled /\ paperResults' # paperResults

\* the bets the stored results are computed from, the winner and the pools
ResolvedBets == SelectSeq(paperBets, LAMBDA b : b.battleId = lastResolve'.battleId)

ResolvedWinnerPool ==
    SumAmounts(SelectSeq(ResolvedBets, LAMBDA b : b.agentId = lastResolve'.winnerAgentId))

ResolvedLoserPool == SumAmounts(ResolvedBets) - ResolvedWinnerPool

JobsOf(b) == {j \in DOMAIN jobs : jobs[j].battleId = b}

Settled(j) == jobs[j].pc \in {"returned", "thrown"}

\* C4: a battle is complete, and its battle_complete event is out, only when a
\* pipeline was started for every listed participant and every one of them has
\* settled; a pipeline that returned has stored its receipt, whatever the receipts
\* of its siblings say, and a step that settles one pipeline settles no other.
C4_WaitForAll ==
    /\ \A i \in DOMAIN battles :
          /\ battles[i].status # "lobby" =>
                Cardinality(JobsOf(battles[i].battleId)) = Len(battles[i].agentIds)
          /\ battles[i].status = "complete" =>
                \A j \in JobsOf(battles[i].battleId) : Settled(j)
    /\ \A e \in DOMAIN events :
          events[e].type = "battle_complete" =>
              \A j \in JobsOf(events[e].payload.battleId) : Settled(j)
    /\ \A j \in DOMAIN jobs :
          jobs[j].pc = "returned" =>
              \E r \in DOMAIN receipts : receipts[r].jobId = j
    /\ Cardinality({e \in DOMAIN events : events[e].type = "battle_complete"})
          = Cardinality({events[e].payload.battleId :
                           e \in {x \in DOMAIN events : events[x].type = "battle_complete"}})

\* a complete battle in which one pipeline failed and a sibling, settling later,
\* fulfilled
C4_Witness ==
    \E i \in DOMAIN battles, ra \in DOMAIN receipts, rb \in DOMAIN receipts :
        /\ battles[i].status = "complete"
        /\ ra < rb
        /\ receipts[ra].battleId = battles[i].battleId
        /\ receipts[rb].battleId = battles[i].battleId
        /\ receipts[ra].outcome.status = "failed"
        /\ receipts[rb].outcome.status = "fulfilled"

StatusRank(status) ==
    CASE status = "lobby" -> 0 [] status = "running" -> 1 [] status = "complete" -> 2

\* C5: in every step the status of every stored battle stays or moves forward
\* along lobby -> running -> complete.
C5_StatusMonotone ==
    [][\A i \in DOMAIN battles, k \in DOMAIN battles' :
          battles'[k].battleId = battles[i].battleId =>
              StatusRank(battles'[k].status) >= StatusRank(battles[i].status)]_vars

\* a battle opened in the lobby that is complete, while POST /arena/admin/run
\* still finds it as the current battle
C5_Witness ==
    \E i \in DOMAIN battles :
        /\ battles[i].status = "complete"
        /\ battles[i].battleId = currentBattleId
        /\ \E e \in DOMAIN events :
              /\ events[e].type = "battle_open"
              /\ events[e].payload.battleId = currentBattleId

\* C6: a battle record with a winner is complete.
C6_WinnerOnlyComplete ==
    \A i \in DOMAIN battles :
        battles[i].winnerAgentId # NoAgent => battles[i].status = "complete"

\* a complete battle with a winner next to a battle that is not complete
C6_Witness ==
    \E i \in DOMAIN battles, k \in DOMAIN battles :
        /\ battles[i].status = "complete"
        /\ battles[i].winnerAgentId # NoAgent
        /\ battles[k].status \in {"lobby", "running"}

\* C7 as stated: every battle record lists 2 or 3 pairwise distinct agents and
\* has exactly one scorecard per listed agent.
C7_BattleWellFormed ==
    \A i \in DOMAIN battles :
        LET ids   == battles[i].agentIds
            cards == battles[i].scorecards
        IN  /\ Len(ids) \in {2, 3}
            /\ \A a \in DOMAIN ids, b \in DOMAIN ids : a # b => ids[a] # ids[b]
            /\ \A a \in DOMAIN ids :
                  Cardinality({c \in DOMAIN cards : cards[c].agentId = ids[a]}) = 1
            /\ Len(cards) = Len(ids)

\* ------------------------------------ specification: winner determination

\* the stores after construction
EmptyStore ==
    [receipts |-> <<>>, events |-> <<>>, battles |-> <<>>, currentBattleId |-> Undef,
     streamEvents |-> <<>>, jobs |-> <<>>, paperBets |-> <<>>, paperResults |-> <<>>,
     nicknameStats |-> <<>>, nextBattleId |-> 0, predictionCalls |-> {},
     lastResolve |-> NoResolve]

\* the stores are S
StoreIs(S) ==
    /\ receipts = S.receipts
    /\ events = S.events
    /\ battles = S.battles
    /\ currentBattleId = S.currentBattleId
    /\ streamEvents = S.streamEvents
    /\ jobs = S.jobs
    /\ paperBets = S.paperBets
    /\ paperResults = S.paperResults
    /\ nicknameStats = S.nicknameStats
    /\ nextBattleId = S.nextBattleId
    /\ predictionCalls = S.predictionCalls
    /\ lastResolve = S.lastResolve

\* the stores after a history of standalone jobs in sim mode, each posted to
\* POST /jobs and run to its receipt before the next; hist lists the agent and
\* the status of each job, the metrics being the low sample
RECURSIVE Replay(_, _)
Replay(S, hist) ==
    IF hist = <<>> THEN S
    ELSE LET jobId   == Len(S.jobs) + 1
             agentId == hist[1][1]
             outcome == CHOOSE o \in AgentOutcomes(agentId) :
                           /\ o.status = hist[1][2]
                           /\ o.latencyMs = ProfileLatencyMs[agentId][1]
             S1 == RunJobStart(S, "sim", jobId, agentId, "swap", FALSE, Undef, "")
             S2 == RunAgentStep(S1, "sim", jobId, outcome)
         IN  \* the job has stored its receipt before the next one is posted
             CASE Len(S2.receipts) = jobId -> Replay(S2, Tail(hist))

Rep(x, n) == [i \in 1..n |-> x]

\* battles fought after the history
MaxWinnerBattles == 1

\* the histories of the winner runs: safe with none, with one old failure before
\* nine fulfilled, or one old success before nine failures; cheap with none or
\* seven fulfilled before two failures
WinnerHistories ==
    {sh \o ch :
        sh \in {<<>>,
                Rep(<<"safe", "failed">>, 1) \o Rep(<<"safe", "fulfilled">>, 9),
                Rep(<<"safe", "fulfilled">>, 1) \o Rep(<<"safe", "failed">>, 9)},
        ch \in {<<>>,
                Rep(<<"cheap", "fulfilled">>, 7) \o Rep(<<"cheap", "failed">>, 2)}}

WinnerListInputs ==
    {<<"safe", "cheap">>, <<"cheap", "safe">>, <<"safe", "safe", "cheap">>}

InitWinner ==
    /\ mode = "sim"
    /\ autoResolve = FALSE
    /\ response = NoResponse
    /\ sseClients = <<>>
    /\ nodeEnv = "development"
    /\ aqiCall = NoAqi
    /\ escrow = Deployed
    /\ \E hist \in WinnerHistories : StoreIs(Replay(EmptyStore, hist))

NextWinner ==
    \/ \E t \in Range(VALID_TYPES), ids \in WinnerListInputs :
          /\ nextBattleId < MaxWinnerBattles
          /\ PostArenaBattle(TRUE, t, ids, "absent")
    \/ \E j \in DOMAIN jobs : \E o \in AgentOutcomes(jobs[j].agentId) : RunAgentReturns(j, o)

SpecWinner == InitWinner /\ [][NextWinner]_vars

\* ------------------------------------------ claims on the winner rules

\* the battles a step completes, as they are after the step
Completed ==
    {i \in DOMAIN battles' :
        /\ battles'[i].status = "complete"
        /\ \A k \in DOMAIN battles :
              battles[k].battleId = battles'[i].battleId => battles[k].status # "complete"}

\* the receipts of an agent, the last ten of them, and the fulfilled among those
ReceiptsOf(rs, agentId) == {i \in DOMAIN rs : rs[i].agentId = agentId}

LastTen(rs, agentId) ==
    {i \in ReceiptsOf(rs, agentId) :
        Cardinality({k \in ReceiptsOf(rs, agentId) : k > i}) < 10}

FulfilledOfLastTen(rs, agentId) ==
    Cardinality({i \in LastTen(rs, agentId) : rs[i].outcome.status = "fulfilled"})

\* the fraction of a is at least the fraction of b (0 for an agent with no receipt)
FractionAtLeast(rs, a, b) ==
    LET na == Cardinality(LastTen(rs, a))
        nb == Cardinality(LastTen(rs, b))
    IN  CASE nb = 0 -> TRUE
          [] na = 0 -> FulfilledOfLastTen(rs, b) = 0
          [] OTHER  -> FulfilledOfLastTen(rs, a) * nb >= FulfilledOfLastTen(rs, b) * na

\* the positions in the list whose agent no other agent of the list exceeds
MostReliable(rs, ids) ==
    {k \in DOMAIN ids : \A m \in DOMAIN ids : FractionAtLeast(rs, ids[k], ids[m])}

\* C8: the winner of a reliability battle, when it completes, is the first agent
\* in the battle's list among those whose fraction of fulfilled receipts in their
\* last 10 stored receipts (0 with no receipt) is the highest.
C8_ReliabilityWinner ==
    [][\A i \in Completed :
          battles'[i].battleType = "reliability" =>
              LET ids == battles'[i].agentIds
                  top == MostReliable(receipts', ids)
              IN  /\ top # {}
                  /\ battles'[i].winnerAgentId =
                        ids[CHOOSE k \in top : \A m \in top : k <= m]]_vars

\* a complete reliability battle whose winner has more than ten receipts and
\* ties with an agent listed after it
C8_Witness ==
    \E i \in DOMAIN battles :
        LET ids == battles[i].agentIds
        IN  /\ battles[i].battleType = "reliability"
            /\ battles[i].status = "complete"
            /\ battles[i].winnerAgentId = ids[1]
            /\ Cardinality(ReceiptsOf(receipts, ids[1])) > 10
            /\ \E m \in DOMAIN ids :
                  /\ ids[m] # ids[1]
                  /\ FractionAtLeast(receipts, ids[m], ids[1])

\* the metric a battle type ranks by
MetricOf(battleType) ==
    CASE battleType = "speed" -> "latencyMs"
      [] battleType = "gas" -> "gasUsedUsd"
      [] battleType = "slippage" -> "slippageBps"

\* the candidate pool of a list of scorecards: the fulfilled ones, or all
PoolOf(cards) ==
    IF \E c \in DOMAIN cards : cards[c].status = "fulfilled"
    THEN {c \in DOMAIN cards : cards[c].status = "fulfilled"}
    ELSE DOMAIN cards

\* card c ranks no later than card d: a missing value ranks after every value
RanksNoLater(c, d, field) ==
    \/ d[field] = Undef
    \/ c[field] # Undef /\ c[field] <= d[field]

\* C9: the winner of a speed, gas or slippage battle, when it completes, is the
\* agent of a scorecard of the pool (the fulfilled scorecards, or all of them when
\* none is fulfilled) that no scorecard of the pool ranks before.
C9_MetricWinner ==
    [][\A i \in Completed :
          battles'[i].battleType \in {"speed", "gas", "slippage"} =>
              LET cards == battles'[i].scorecards
                  field == MetricOf(battles'[i].battleType)
              IN  \E c \in PoolOf(cards) :
                      /\ battles'[i].winnerAgentId = cards[c].agentId
                      /\ \A d \in PoolOf(cards) : RanksNoLater(cards[c], cards[d], field)]_vars

\* a complete battle with no fulfilled scorecard and a scorecard without metrics,
\* won by an agent that is not the first listed
C9_Witness ==
    \E i \in DOMAIN battles :
        LET cards == battles[i].scorecards
        IN  /\ battles[i].battleType \in {"speed", "gas", "slippage"}
            /\ battles[i].status = "complete"
            /\ \A c \in DOMAIN cards : cards[c].status # "fulfilled"
            /\ \E c \in DOMAIN cards : cards[c].latencyMs = Undef
            /\ battles[i].winnerAgentId \notin {NoAgent, cards[1].agentId}

\* ---------------------------------- specification: stream reconciliation

\* standalone jobs posted in a run
MaxStreamJobs == 2

\* confirmation records ingested in a run
MaxStreams == 1

\* battles opened in a run
MaxStreamBattles == 1

\* a transaction no job of the run sent
ForeignTx == MaxStreamJobs + 1

Swap(id, uc, status) ==
    [txHash |-> [id |-> id, uc |-> uc], logIndex |-> 0, gasUsed |-> "55000",
     status |-> status]

\* the payloads of the webhook: one record for the transaction of a job or
\* for a foreign one, in either case of letters and with either EVM status; and
\* a payload of a record without hash and two records for the same transaction
StreamPayloads ==
    {<<Swap(id, uc, st)>> :
        id \in 1..ForeignTx, uc \in BOOLEAN, st \in {"success", "reverted"}}
    \cup {<<Swap(0, FALSE, "success"), Swap(1, TRUE, "reverted"), Swap(1, FALSE, "success")>>}

\* the outcome the jobs of the stream runs draw: fulfilled, the low sample
StreamOutcomes(agentId) == BetsOutcomes(agentId)

InitStreams == InitWith({"real"}, {FALSE})

NextStreams ==
    \/ Len(jobs) < MaxStreamJobs /\ PostJobs("swap", "safest", "valid")
    \/ \E j \in DOMAIN jobs : QuoteReturns(j)
    \/ \E j \in DOMAIN jobs : BuildReturns(j)
    \/ \E j \in DOMAIN jobs, st \in {"success", "reverted"} : SendTxReturns(j, st)
    \/ \E j \in DOMAIN jobs : \E o \in StreamOutcomes(jobs[j].agentId) : RunAgentReturns(j, o)
    \/ \E ok \in BOOLEAN, swaps \in StreamPayloads :
          /\ StreamCount < MaxStreams
          /\ PostWebhooksQuicknode(ok, swaps)
    \/ \E h \in {EmptyHash, [id |-> 1, uc |-> TRUE], [id |-> ForeignTx, uc |-> FALSE]},
          gas \in {"", "66000"}, st \in {"success", "reverted", "pending"},
          pick \in 0..Len(receipts) :
          /\ StreamCount < MaxStreams
          /\ PostStreamsDevEmit(h, 0, gas, st, pick)
    \/ /\ nextBattleId < MaxStreamBattles
       /\ PostArenaAdminOpen(TRUE, "speed", <<"safe", "cheap">>)

SpecStreams == InitStreams /\ [][NextStreams]_vars

\* -------------------------------------- claims on stream reconciliation

\* a step that ingests confirmation records, and the records it ingests: every
\* ingested record is announced by a stream_event
Ingesting ==
    /\ Len(events') > Len(events)
    /\ events'[Len(events')].type = "stream_event"

Ingested == [k \in 1..(Len(events') - Len(events)) |-> events'[Len(events) + k].payload]

\* the first stored receipt whose transaction has the hash, in whatever case of
\* letters either is written; 0 when there is none
FirstWithHash(txHash) ==
    LET with == {i \in DOMAIN receipts :
                    /\ receipts[i].onChain # <<>>
                    /\ receipts[i].onChain[1].txHash.id = txHash.id}
    IN  IF with = {} THEN 0 ELSE CHOOSE i \in with : \A k \in with : i <= k

\* the records of the step that fall on receipt i
RecordsFor(i) == {k \in DOMAIN Ingested : FirstWithHash(Ingested[k].txHash) = i}

\* the scorecard of the agent in the battle is marked verified, if the battle is stored
ScorecardVerified(bs, battleId, agentId) ==
    \A b \in DOMAIN bs :
        bs[b].battleId = battleId =>
            \A c \in DOMAIN bs[b].scorecards :
                (/\ bs[b].scorecards[c].agentId = agentId
                 /\ \A d \in 1..(c - 1) : bs[b].scorecards[d].agentId # agentId)
                    => bs[b].scorecards[c].verifiedByStream

\* C10: a step that ingests confirmation records leaves every receipt that is not
\* the first match of one of them as it was; the first match of a record gets the
\* status fulfilled when the record's EVM status is success and failed otherwise
\* (the last record for it deciding), keeps its job, agent and transaction, and the
\* scorecard of its agent in its battle is verified; the battle records change
\* only by that.
C10_StreamReconciliation ==
    [][Ingesting =>
         /\ Len(receipts') = Len(receipts)
         /\ \A i \in DOMAIN receipts :
               IF RecordsFor(i) = {}
               THEN receipts'[i] = receipts[i]
               ELSE LET last == CHOOSE k \in RecordsFor(i) : \A m \in RecordsFor(i) : m <= k
                        evm  == Ingested[last].status
                    IN  /\ receipts'[i].outcome.status =
                              IF evm = "success" THEN "fulfilled" ELSE "failed"
                        /\ receipts'[i].jobId = receipts[i].jobId
                        /\ receipts'[i].agentId = receipts[i].agentId
                        /\ receipts'[i].onChain[1].txHash = receipts[i].onChain[1].txHash
                        /\ receipts'[i].onChain[1].verifiedBy = "quicknode"
                        /\ receipts[i].battleId # Undef =>
                              ScorecardVerified(battles', receipts[i].battleId,
                                                receipts[i].agentId)
         /\ (\A i \in DOMAIN receipts :
                RecordsFor(i) = {} \/ receipts[i].battleId = Undef)
               => battles' = battles]_vars

\* a receipt that was stored as fulfilled and is failed after a reverted record
\* whose hash is written in upper case, next to a second receipt with a
\* transaction and a stored battle
C10_Witness ==
    \E i \in DOMAIN receipts, k \in DOMAIN receipts, e \in DOMAIN events, f \in DOMAIN events :
        /\ i # k
        /\ receipts[k].onChain # <<>>
        /\ battles # <<>>
        /\ receipts[i].onChain # <<>>
        /\ receipts[i].outcome.status = "failed"
        /\ receipts[i].onChain[1].status = "reverted"
        /\ receipts[i].onChain[1].verifiedBy = "quicknode"
        /\ events[f].type = "fulfilled"
        /\ events[f].payload.jobId = receipts[i].jobId
        /\ f < e
        /\ events[e].type = "stream_event"
        /\ events[e].payload.txHash = [id |-> receipts[i].onChain[1].txHash.id, uc |-> TRUE]
        /\ events[e].payload.status = "reverted"
        /\ events[e].payload.matchedJobId = receipts[i].jobId

\* ------------------------------------- specification: stream ingestion

\* the stores after a history of standalone swap jobs in real mode, each posted
\* to POST /jobs and run through quote, build, send and runAgent to its receipt
\* before the next; hist lists the agent, the EVM status of the transaction and
\* the status of the outcome of each job
RECURSIVE ReplayReal(_, _)
ReplayReal(S, hist) ==
    IF hist = <<>> THEN S
    ELSE LET j       == Len(S.jobs) + 1
             agentId == hist[1][1]
             outcome == CHOOSE o \in AgentOutcomes(agentId) :
                           /\ o.status = hist[1][3]
                           /\ o.latencyMs = ProfileLatencyMs[agentId][1]
             S1 == RunJobStart(S, "real", j, agentId, "swap", TRUE, Undef, "")
             S2 == [S1 EXCEPT !.jobs[j].quoteResult = TRUE, !.jobs[j].pc = "build"]
             S3 == [S2 EXCEPT !.jobs[j].swapTxRequest = TRUE, !.jobs[j].pc = "send"]
             S4 == SendTxStep(S3, j, hist[1][2])
         IN  ReplayReal(RunAgentStep(S4, "real", j, outcome), Tail(hist))

\* confirmation records ingested in a run
MaxIngests == 3

\* the jobs run before the ingestions: one or two, the first fulfilled
IngestHistories ==
    {<<first>> \o rest :
        first \in {<<"safe", "success", "fulfilled">>},
        rest \in {<<>>, <<<<"fast", "success", "failed">>>>,
                  <<<<"cheap", "reverted", "fulfilled">>>>}}

\* the payloads of the webhook in the ingestion runs: one record for one of
\* three transactions, the last of them foreign
IngestPayloads ==
    {<<Swap(id, uc, st)>> : id \in 1..3, uc \in BOOLEAN, st \in {"success", "reverted"}}

InitIngest ==
    /\ mode = "real"
    /\ autoResolve = FALSE
    /\ response = NoResponse
    /\ sseClients = <<>>
    /\ nodeEnv = "development"
    /\ aqiCall = NoAqi
    /\ escrow = Deployed
    /\ \E hist \in IngestHistories : StoreIs(ReplayReal(EmptyStore, hist))

NextIngest ==
    \/ \E ok \in BOOLEAN, swaps \in IngestPayloads \cup StreamPayloads :
          StreamCount < MaxIngests /\ PostWebhooksQuicknode(ok, swaps)
    \/ \E h \in {EmptyHash, [id |-> 1, uc |-> TRUE]}, gas \in {"", "55000"},
          st \in {"success", "reverted"}, pick \in 0..Len(receipts) :
          StreamCount < MaxIngests /\ PostStreamsDevEmit(h, 0, gas, st, pick)

SpecIngest == InitIngest /\ [][NextIngest]_vars

\* ----------------------------------------- claims on stream ingestion

\* a step that ingests one record which is the record ingested last before,
\* matched to the same receipt then and now
Redelivered ==
    /\ Ingesting
    /\ Len(Ingested) = 1
    /\ events # <<>>
    /\ events[Len(events)].type = "stream_event"
    /\ events[Len(events)].payload.txHash = Ingested[1].txHash
    /\ events[Len(events)].payload.gasUsed = Ingested[1].gasUsed
    /\ events[Len(events)].payload.status = Ingested[1].status
    /\ events[Len(events)].payload.matchedJobId # Undef
    /\ events[Len(events)].payload.matchedJobId = Ingested[1].matchedJobId

\* C11: applying a confirmation record a second time leaves the matched receipt's
\* status, on-chain gas-used, on-chain status and verification source, and the
\* verified flags of the battle scorecards, as they were after the first time.
C11_ReapplyIdempotent ==
    [][Redelivered =>
         LET i == FirstWithHash(Ingested[1].txHash)
         IN  /\ i # 0
             /\ receipts'[i].outcome.status = receipts[i].outcome.status
             /\ receipts'[i].onChain[1].gasUsed = receipts[i].onChain[1].gasUsed
             /\ receipts'[i].onChain[1].status = receipts[i].onChain[1].status
             /\ receipts'[i].onChain[1].verifiedBy = receipts[i].onChain[1].verifiedBy
             /\ battles' = battles]_vars

\* a reverted record delivered twice to a receipt stored as fulfilled
C11_Witness ==
    /\ Len(events) >= 2
    /\ events[Len(events)].type = "stream_event"
    /\ events[Len(events)] = events[Len(events) - 1]
    /\ events[Len(events)].payload.status = "reverted"
    /\ \E i \in DOMAIN receipts, f \in DOMAIN events :
          /\ receipts[i].jobId = events[Len(events)].payload.matchedJobId
          /\ receipts[i].outcome.status = "failed"
          /\ events[f].type = "fulfilled"
          /\ events[f].payload.jobId = receipts[i].jobId

\* ---------------------------------------- specification: the job pipeline

\* jobs started in a run of the pipeline
MaxRunJobs == 2

\* runJob called with the given input, up to its first await
RunJob(agentId, jobType, swapParams) ==
    Commit(RunJobStart(Store, mode, Len(jobs) + 1, agentId, jobType, swapParams, Undef, ""))

InitJobs == InitWith({"sim", "quote", "real"}, {FALSE})

NextJobs ==
    \/ \E agentId \in {"safe", "fast"}, swapParams \in BOOLEAN :
          Len(jobs) < MaxRunJobs /\ RunJob(agentId, "swap", swapParams)
    \/ \E objective \in {"cheapest"}, rawSwap \in {"absent", "valid"} :
          Len(jobs) < MaxRunJobs /\ PostJobs("paid_call", objective, rawSwap)
    \/ \E j \in DOMAIN jobs : QuoteReturns(j)
    \/ \E j \in DOMAIN jobs : QuoteThrows(j)
    \/ \E j \in DOMAIN jobs : BuildReturns(j)
    \/ \E j \in DOMAIN jobs : BuildThrows(j)
    \/ \E j \in DOMAIN jobs, st \in {"success", "reverted"} : SendTxReturns(j, st)
    \/ \E j \in DOMAIN jobs, phase \in {"base_send_tx", "base_confirm_tx"} :
          SendTxThrows(j, phase)
    \/ \E j \in DOMAIN jobs :
          \E o \in ArenaOutcomes(jobs[j].agentId) : RunAgentReturns(j, o)

SpecJobs == InitJobs /\ [][NextJobs]_vars

\* ------------------------------------------ claims on the job pipeline

\* the receipts stored for job j
ReceiptsOfJob(j) == {i \in DOMAIN receipts : receipts[i].jobId = j}

\* C12: the quote and build stages are invoked only for a job with swap
\* parameters outside sim mode, the broadcast stage only in real mode; in sim
\* mode a job with swap parameters invokes none of them and, once it returned,
\* has a stored receipt whose status is fulfilled or failed.
C12_StageGating ==
    \A j \in DOMAIN jobs :
        /\ (jobs[j].pc \in {"quote", "build"} \/ jobs[j].quoteResult \/ jobs[j].swapTxRequest)
              => (jobs[j].swapParams /\ mode # "sim")
        /\ (jobs[j].pc = "send" \/ jobs[j].onChain # <<>>) => mode = "real"
        /\ mode = "sim" =>
              /\ jobs[j].pc \in {"agent", "returned"}
              /\ jobs[j].pc = "returned" =>
                    \E i \in ReceiptsOfJob(j) :
                        /\ receipts[i].outcome.status \in {"fulfilled", "failed"}
                        /\ ~receipts[i].quoteResult
                        /\ ~receipts[i].swapTxRequest
                        /\ receipts[i].onChain = <<>>

\* in sim mode a job with swap parameters has returned with its receipt stored
C12_Witness ==
    /\ mode = "sim"
    /\ \E j \in DOMAIN jobs :
          /\ jobs[j].swapParams
          /\ jobs[j].pc = "returned"
          /\ ReceiptsOfJob(j) # {}

\* the labels a failed event can carry for a job awaiting the given stage
StageLabels ==
    [quote |-> {"uniswap_quote"}, build |-> {"uniswap_tx_build"},
     send  |-> {"base_send_tx", "base_confirm_tx"}]

\* the events emitted by the step
NewEvents == {events'[k] : k \in (Len(events) + 1)..Len(events')}

\* C13: a failure in the quote, build, broadcast or confirm stage is terminal for
\* the job: a failed event with the label of that stage is emitted, no later
\* stage is invoked, no receipt is stored for the job, the stage is not tried
\* again, and runJob rejects to its caller.
C13_StageFailureTerminal ==
    [][\A j \in DOMAIN jobs :
          /\ (jobs[j].pc \in DOMAIN StageLabels /\ jobs'[j].pc \notin {jobs[j].pc, "thrown"})
                => \A e \in NewEvents : ~(e.type = "failed" /\ e.payload.jobId = j)
          /\ (jobs[j].pc \in DOMAIN StageLabels /\ jobs'[j].pc = "thrown")
                => /\ \E e \in NewEvents :
                         /\ e.type = "failed"
                         /\ e.payload.jobId = j
                         /\ e.payload.phase \in StageLabels[jobs[j].pc]
                   /\ jobs'[j] = [jobs[j] EXCEPT !.pc = "thrown"]
                   /\ receipts' = receipts
          /\ jobs[j].pc = "thrown"
                => /\ jobs'[j] = jobs[j]
                   /\ \A i \in DOMAIN receipts' : receipts'[i].jobId # j
                   /\ \A e \in NewEvents : e.payload.jobId # j]_vars

\* one job failed while waiting for the confirmation of its transaction, after
\* its quote and build stages, and another job ran to its receipt
C13_Witness ==
    \E j, k \in DOMAIN jobs :
        /\ jobs[j].pc = "thrown"
        /\ jobs[j].quoteResult /\ jobs[j].swapTxRequest
        /\ \E f \in DOMAIN events :
              /\ events[f].type = "failed"
              /\ events[f].payload.jobId = j
              /\ events[f].payload.phase = "base_confirm_tx"
        /\ ReceiptsOfJob(j) = {}
        /\ jobs[k].pc = "returned"
        /\ ReceiptsOfJob(k) # {}

\* ------------------------------------ specification: the stored receipts

\* confirmation records, later jobs, bets and battles in a run over stored receipts
MaxReceiptIngests == 1

MaxReceiptJobs == 1

MaxReceiptBets == 1

MaxReceiptBattles == 1

\* the jobs started by POST /jobs
StandaloneCount == Cardinality({j \in DOMAIN jobs : jobs[j].battleId = Undef})

\* the state after one real-mode job stored its receipt with on-chain evidence
InitReceipts ==
    /\ mode = "real"
    /\ autoResolve = FALSE
    /\ response = NoResponse
    /\ sseClients = <<>>
    /\ nodeEnv = "development"
    /\ aqiCall = NoAqi
    /\ escrow = Deployed
    /\ StoreIs(ReplayReal(EmptyStore, <<<<"safe", "success", "fulfilled">>>>))

NextReceipts ==
    \/ \E uc \in BOOLEAN, st \in {"success", "reverted"} :
          StreamCount < MaxReceiptIngests /\ PostWebhooksQuicknode(TRUE, <<Swap(1, uc, st)>>)
    \/ StandaloneCount < 1 + MaxReceiptJobs /\ PostJobs("swap", "fastest", "valid")
    \/ \E j \in DOMAIN jobs : QuoteReturns(j)
    \/ \E j \in DOMAIN jobs : BuildReturns(j)
    \/ \E j \in DOMAIN jobs : SendTxReturns(j, "success")
    \/ nextBattleId < MaxReceiptBattles
          /\ PostArenaBattle(TRUE, "speed", <<"safe", "fast">>, "absent")
    \/ \E j \in DOMAIN jobs : \E o \in BetsOutcomes(jobs[j].agentId) : RunAgentReturns(j, o)
    \/ \E a \in {"safe", "fast"} :
          Len(paperBets) < MaxReceiptBets
             /\ PostPaperbetsPlace(1, Nick("ann", FALSE, FALSE, FALSE), a, MIN_BET)
    \/ \E a \in {"safe", "fast"} :
          lastResolve.routeCalls < MaxResolves /\ PostPaperbetsResolve(1, a)

SpecReceipts == InitReceipts /\ [][NextReceipts]_vars

\* ------------------------------------------ claims on the stored receipts

\* a receipt without the two parts that stream reconciliation may patch
Unpatched(r) == [r EXCEPT !.outcome.status = "", !.onChain = <<>>]

\* C14: a stored receipt stays stored at its place and no step changes any of
\* its fields, except that a step ingesting confirmation records may change its
\* outcome.status and its on-chain evidence, and nothing else of it.
C14_ReceiptImmutable ==
    [][\A i \in DOMAIN receipts :
          /\ i \in DOMAIN receipts'
          /\ Unpatched(receipts'[i]) = Unpatched(receipts[i])
          /\ (receipts'[i].onChain = <<>>) = (receipts[i].onChain = <<>>)
          /\ ~Ingesting => receipts'[i] = receipts[i]]_vars

\* the first receipt was patched by a record, and since then a battle was
\* completed, its bets were resolved and a later job stored a receipt
C14_Witness ==
    /\ Len(receipts) >= 4
    /\ receipts[1].onChain[1].verifiedBy = "quicknode"
    /\ receipts[1].outcome.status = "failed"
    /\ \E b \in DOMAIN battles : battles[b].status = "complete"
    /\ paperResults # <<>>
    /\ \E i \in DOMAIN receipts : i > 1 /\ receipts[i].onChain # <<>>

\* ------------------------------------- specification: the bounded buffers

\* battles opened and confirmation records ingested in a run over the buffers
MaxBufferBattles == 3

MaxBufferIngests == 3

\* the payloads of the webhook in the buffer runs: one record, or three of
\* which the first has no hash
BufferPayloads ==
    {<<Swap(1, FALSE, "success")>>, <<Swap(2, TRUE, "reverted")>>,
     <<Swap(0, FALSE, "success"), Swap(1, TRUE, "reverted"), Swap(1, FALSE, "success")>>}

InitBuffers == InitWith({"sim"}, {FALSE})

NextBuffers ==
    \/ \E ids \in {<<"safe", "cheap">>, <<"fast">>} :
          nextBattleId < MaxBufferBattles /\ PostArenaAdminOpen(TRUE, "speed", ids)
    \/ \E swaps \in BufferPayloads :
          StreamCount < MaxBufferIngests /\ PostWebhooksQuicknode(TRUE, swaps)
    \/ \E h \in {EmptyHash, [id |-> 1, uc |-> TRUE]} :
          StreamCount < MaxBufferIngests /\ PostStreamsDevEmit(h, 0, "", "success", 0)

SpecBuffers == InitBuffers /\ [][NextBuffers]_vars

\* --------------------------------------- claims on the bounded buffers

\* the last cap entries of a list, all of them when there are no more
LastOf(seq, cap) ==
    IF Len(seq) > cap THEN SubSeq(seq, Len(seq) - cap + 1, Len(seq)) ELSE seq

\* C15: the battle list never holds more than MAX_BATTLES records and the
\* stream-event list never more than MAX_STREAM_EVENTS; an insert appends at the
\* end and, beyond the capacity, removes exactly the oldest entries, the others
\* staying in insertion order.
C15_BoundedFifo ==
    [][/\ Len(battles') <= MAX_BATTLES
       /\ Len(streamEvents') <= MAX_STREAM_EVENTS
       /\ IF Ingesting
          THEN streamEvents' = LastOf(streamEvents \o Ingested, MAX_STREAM_EVENTS)
          ELSE streamEvents' = streamEvents
       /\ IF nextBattleId' # nextBattleId
          THEN /\ battles' # <<>>
               /\ battles'[Len(battles')].battleId = nextBattleId'
               /\ battles' = LastOf(Append(battles, battles'[Len(battles')]), MAX_BATTLES)
          ELSE battles' = battles]_vars

\* both buffers are full and each has evicted entries: the oldest battle and the
\* oldest stream event are gone, the newest are at the end
C15_Witness ==
    /\ Len(battles) = MAX_BATTLES
    /\ nextBattleId > MAX_BATTLES
    /\ battles[1].battleId = nextBattleId - MAX_BATTLES + 1
    /\ Len(streamEvents) = MAX_STREAM_EVENTS
    /\ StreamCount > MAX_STREAM_EVENTS
    /\ streamEvents[MAX_STREAM_EVENTS] = events[Len(events)].payload

\* C16: the number of stored receipts never exceeds a fixed capacity. The store
\* names no capacity for receipts; the capacity taken is that of the largest
\* buffer it bounds, the stream-event buffer.
C16_ReceiptsBounded == Len(receipts) <= MAX_STREAM_EVENTS

\* C17: no two entries of the stream-event buffer have the same composite id
\* (transaction hash and log index).
C17_StreamIdsUnique ==
    \A i, k \in DOMAIN streamEvents :
        streamEvents[i].id = streamEvents[k].id => i = k

\* --------------------------------------- claims on the bets of a battle

\* the same nickname, whatever the case of its letters and the space around it
SameNickname(a, b) == a.base = b.base

\* C18: no two stored bets of the same battle have the same nickname, compared
\* without regard to case after trimming; a step stores at most one bet, and
\* never one whose nickname a stored bet of that battle already has.
C18_NicknameUnique ==
    [][/\ \A i, k \in DOMAIN paperBets' :
             (/\ paperBets'[i].battleId = paperBets'[k].battleId
              /\ SameNickname(paperBets'[i].nickname, paperBets'[k].nickname)) => i = k
       /\ Len(paperBets') <= Len(paperBets) + 1
       /\ \A i \in DOMAIN paperBets : paperBets'[i] = paperBets[i]]_vars

\* a battle has the bet of a nickname written in capitals with spaces around it,
\* stored trimmed, and the bets of two other nicknames
C18_Witness ==
    \E i, k, l \in DOMAIN paperBets :
        /\ i # k /\ k # l /\ i # l
        /\ paperBets[i].battleId = paperBets[k].battleId
        /\ paperBets[i].battleId = paperBets[l].battleId
        /\ paperBets[i].nickname = Nick("bob", TRUE, FALSE, FALSE)

\* C19: whenever a battle is complete with a winner and results are stored for
\* it, each result is marked won exactly when its bet picked that winner.
C19_ResultsFollowWinner ==
    \A b \in DOMAIN battles :
        (battles[b].status = "complete" /\ battles[b].winnerAgentId # NoAgent) =>
            \A i \in DOMAIN paperResults :
                paperResults[i].battleId = battles[b].battleId =>
                    (paperResults[i].won <=> paperResults[i].agentId = battles[b].winnerAgentId)

\* ----------------------------------------- specification: the settlement

\* battles and bets in a run of the settlement
MaxSettleBattles == 1

MaxSettleBets == 2

InitSettle == InitWith({"sim"}, BOOLEAN)

NextSettle ==
    \/ \E ids \in {<<>>, <<"safe", "fast">>} :
          nextBattleId < MaxSettleBattles /\ PostArenaAdminOpen(TRUE, "speed", ids)
    \/ PostArenaAdminRun(TRUE)
    \/ nextBattleId < MaxSettleBattles
          /\ PostArenaBattle(TRUE, "speed", <<"safe", "fast">>, "absent")
    \/ \E j \in DOMAIN jobs : \E o \in ArenaOutcomes(jobs[j].agentId) : RunAgentReturns(j, o)
    \/ \E n \in {Nick("ann", FALSE, FALSE, FALSE), Nick("bob", FALSE, FALSE, FALSE)},
          a \in {"safe", "fast"} :
          Len(paperBets) < MaxSettleBets /\ PostPaperbetsPlace(1, n, a, MIN_BET)
    \/ \E c \in predictionCalls, ok \in BOOLEAN : ResolvePredictionSettles(c, ok)

SpecSettle == InitSettle /\ [][NextSettle]_vars

\* ------------------------------------------- claims on the settlement

\* the places in the event log of the events of a type about a battle
EventsAbout(evs, type, battleId) ==
    {k \in DOMAIN evs : evs[k].type = type /\ evs[k].payload.battleId = battleId}

\* the battle is stored as complete with the winner, and its battle_complete
\* event is in the log before every event of its resolution
SettledFirst(bs, evs, battleId, winner) ==
    /\ \E b \in DOMAIN bs :
          /\ bs[b].battleId = battleId
          /\ bs[b].status = "complete"
          /\ bs[b].winnerAgentId = winner
    /\ EventsAbout(evs, "battle_complete", battleId) # {}
    /\ \A c \in EventsAbout(evs, "battle_complete", battleId) :
          /\ evs[c].payload.winnerAgentId = winner
          /\ \A r \in EventsAbout(evs, "paperbet_resolved", battleId)
                   \cup EventsAbout(evs, "prediction_resolved", battleId) : c < r

\* C20: when a battle handler starts the resolution of the paper bets or
\* notifies the escrow, the battle is already stored as complete with its winner
\* and the battle_complete event is already emitted; a battle that completes
\* without a winner starts neither.
C20_SettlementOrder ==
    [][/\ lastResolve'.n > lastResolve.n =>
             /\ lastResolve'.winnerAgentId # NoAgent
             /\ SettledFirst(battles', events', lastResolve'.battleId,
                             lastResolve'.winnerAgentId)
       /\ \A c \in predictionCalls' \ predictionCalls :
             /\ c.winnerAgentId # NoAgent
             /\ SettledFirst(battles', events', c.battleId, c.winnerAgentId)
       /\ \A k \in (Len(events) + 1)..Len(events') :
             (events'[k].type = "prediction_resolved" \/ events'[k].type = "paperbet_resolved")
                => SettledFirst(battles', events', events'[k].payload.battleId,
                                events'[k].payload.winnerAgentId)
       /\ \A k \in (Len(events) + 1)..Len(events') :
             (events'[k].type = "battle_complete" /\ events'[k].payload.winnerAgentId = NoAgent)
                => /\ lastResolve' = lastResolve
                   /\ predictionCalls' = predictionCalls
                   /\ paperResults' = paperResults]_vars

\* a battle with a bet was completed with a winner, its bets were resolved and
\* the escrow answered
C20_Witness ==
    /\ lastResolve.n > 0
    /\ EventsAbout(events, "paperbet_resolved", lastResolve.battleId) # {}
    /\ EventsAbout(events, "prediction_resolved", lastResolve.battleId) # {}
    /\ EventsAbout(events, "battle_complete", lastResolve.battleId) # {}

\* a battle with a bet was completed without a winner
C20_WitnessNoWinner ==
    /\ paperBets # <<>>
    /\ \E k \in DOMAIN events :
          events[k].type = "battle_complete" /\ events[k].payload.winnerAgentId = NoAgent

\* a step in which an escrow call ends without a transaction hash
EscrowFailed ==
    /\ predictionCalls' # predictionCalls
    /\ predictionCalls' \subseteq predictionCalls
    /\ events' = events

\* a battle record without the hash of its escrow transaction
WithoutEscrowHash(battle) == [battle EXCEPT !.resolveTxHash = Undef]

\* C21: nothing is rolled back after a battle completed: whatever a later step
\* does, a failing escrow call included, the battle stays complete with the same
\* winner and scorecards, and stored receipts and stored bet results stay as they
\* are; the failing escrow call changes none of the core stores at all.
C21_NoRollback ==
    [][/\ \A b \in DOMAIN battles :
             battles[b].status = "complete" =>
                /\ b \in DOMAIN battles'
                /\ WithoutEscrowHash(battles'[b]) = WithoutEscrowHash(battles[b])
       /\ \A i \in DOMAIN receipts : i \in DOMAIN receipts' /\ receipts'[i] = receipts[i]
       /\ \A i \in DOMAIN paperResults :
             i \in DOMAIN paperResults' /\ paperResults'[i] = paperResults[i]
       /\ EscrowFailed =>
             /\ battles' = battles
             /\ receipts' = receipts
             /\ paperBets' = paperBets
             /\ paperResults' = paperResults
             /\ nicknameStats' = nicknameStats]_vars

\* the escrow call of a completed battle with resolved bets has failed
C21_Witness ==
    /\ predictionCalls = {}
    /\ paperResults # <<>>
    /\ \E b \in DOMAIN battles :
          /\ battles[b].status = "complete"
          /\ battles[b].winnerAgentId # NoAgent
          /\ battles[b].resolveTxHash = Undef
          /\ autoResolve
          /\ EventsAbout(events, "battle_complete", battles[b].battleId) # {}
          /\ EventsAbout(events, "prediction_resolved", battles[b].battleId) = {}

\* ------------------------------------ specification: the request handlers

\* requests answered in a run, accepted or not
MaxRequests == 3

\* a request to POST /jobs is answered
RequestJobs(jobType, objective, rawSwap) ==
    LET r == JobsHandler(Store, mode, jobType, objective, rawSwap)
    IN  Reply(r.store, r.status)

\* a request to POST /arena/battle is answered
RequestArenaBattle(proofOk, battleType, rawIds, rawSwap) ==
    LET r == BattleHandler(Store, mode, proofOk, battleType, rawIds, rawSwap)
    IN  Reply(r.store, r.status)

\* a request to POST /paperbets/place is answered
RequestPaperbetsPlace(battleId, nickname, agentId, amountEth) ==
    LET r == PlaceHandler(Store, battleId, nickname, agentId, amountEth)
    IN  Reply(r.store, r.status)

RequestListInputs ==
    {<<"safe", "fast">>, <<"safe">>, <<"safe", "rogue">>,
     <<"safe", "fast", "cheap", "safe">>}

RequestNicknameInputs ==
    {Nick("ann", FALSE, FALSE, FALSE), Nick("ann", TRUE, TRUE, FALSE),
     Nick("", FALSE, TRUE, FALSE), Nick("bob", FALSE, FALSE, TRUE)}

RequestAmountInputs == {MIN_BET, MIN_BET - 1, MAX_BET + 1, NaN}

InitRequests == InitWith({"sim", "quote"}, {FALSE})

NextRequests ==
    \/ \E jobType \in {"swap", "paid_call", "bogus"}, objective \in {"fastest", "bogus"},
          rawSwap \in {"absent", "valid", "invalid"} :
          response.n < MaxRequests /\ RequestJobs(jobType, objective, rawSwap)
    \/ \E proofOk \in BOOLEAN, t \in ArenaTypeInputs, ids \in RequestListInputs,
          rawSwap \in {"absent", "valid", "invalid"} :
          response.n < MaxRequests /\ RequestArenaBattle(proofOk, t, ids, rawSwap)
    \/ \E b \in 0..1, n \in RequestNicknameInputs, a \in {"safe", "rogue"},
          amt \in RequestAmountInputs :
          response.n < MaxRequests /\ RequestPaperbetsPlace(b, n, a, amt)
    \/ \E j \in DOMAIN jobs : QuoteReturns(j)
    \/ \E j \in DOMAIN jobs : BuildReturns(j)
    \/ \E j \in DOMAIN jobs : \E o \in BetsOutcomes(jobs[j].agentId) : RunAgentReturns(j, o)

SpecRequests == InitRequests /\ [][NextRequests]_vars

\* ---------------------------------------- claims on the request handlers

\* the step answers a request
Answering == response'.n = response.n + 1

\* C22: a request that input validation rejects (status 400; also one refused
\* for its payment proof, 402, or as a duplicate bet, 409) leaves receipts, the
\* event log, the battle records, the bets, the results and the nickname
\* aggregates as they were.
C22_RejectedMutatesNothing ==
    [][(Answering /\ response'.status >= 400) =>
          /\ receipts' = receipts
          /\ events' = events
          /\ battles' = battles
          /\ paperBets' = paperBets
          /\ paperResults' = paperResults
          /\ nicknameStats' = nicknameStats
          /\ jobs' = jobs]_vars

\* a request was rejected by validation after a job, a battle and a bet had
\* been stored
C22_Witness ==
    /\ response.status = 400
    /\ paperBets # <<>>
    /\ battles # <<>>
    /\ events # <<>>

\* C23: when POST /arena/battle is accepted with valid swap parameters, every
\* participant's pipeline is run with them, so that outside sim mode each of the
\* battle's jobs starts at the quote stage.
C23_SwapParamsShared ==
    \A t \in ArenaTypeInputs, ids \in RequestListInputs :
        LET r == BattleHandler(Store, mode, TRUE, t, ids, "valid")
        IN  r.status = 202 =>
               \A j \in DOMAIN r.store.jobs :
                   j \notin DOMAIN jobs =>
                      /\ r.store.jobs[j].swapParams
                      /\ mode # "sim" => r.store.jobs[j].pc = "quote"

\* -------------------------------------- specification: the event stream

\* the events replayed to a new client: 20 in index.ts, scaled down so that
\* the log outgrows the replay
REPLAY_COUNT == 2

\* a replay of the whole log
ReplayAll(evs) == evs

\* events.slice(-20)
ReplayOf(evs) == SliceLast(evs, REPLAY_COUNT)

\* the stores and the environment, all but the registry of clients
allButClients ==
    <<mode, receipts, events, battles, currentBattleId, streamEvents, jobs, paperBets,
      paperResults, nicknameStats, nextBattleId, autoResolve, predictionCalls, lastResolve,
      response, nodeEnv, aqiCall, escrow>>

\* GET /events: the replay is written and the response is registered; at is
\* the length of the log at that moment
GetEvents ==
    /\ sseClients' = Append(sseClients,
                            [at |-> Len(events), closedAt |-> Undef, open |-> TRUE,
                             written |-> ReplayOf(events)])
    /\ UNCHANGED allButClients

\* the client closes the connection: req.on("close") removes the response
CloseEvents(c) ==
    /\ sseClients[c].open
    /\ sseClients' = [sseClients EXCEPT ![c].open = FALSE, ![c].closedAt = Len(events)]
    /\ UNCHANGED allButClients

\* clients and jobs in a run of the event stream
MaxClients == 2

MaxEventJobs == 2

InitEvents == InitWith({"sim"}, {FALSE})

NextEvents ==
    \/ Len(sseClients) < MaxClients /\ GetEvents
    \/ \E c \in DOMAIN sseClients : CloseEvents(c)
    \/ \E objective \in {"safest", "fastest"} :
          Len(jobs) < MaxEventJobs /\ PostJobs("paid_call", objective, "absent")
    \/ \E j \in DOMAIN jobs : \E o \in ArenaOutcomes(jobs[j].agentId) : RunAgentReturns(j, o)

SpecEvents == InitEvents /\ [][NextEvents]_vars

\* ------------------------------------------ claims on the event stream

\* the part of the log emitted while the client was connected
LiveOf(client) ==
    SubSeq(events, client.at + 1, IF client.open THEN Len(events) ELSE client.closedAt)

\* C24: what a client of the event stream has received is the last REPLAY_COUNT
\* events logged before it connected, in log order, followed by every event
\* emitted while it was connected, once each and in emission order.
C24_EventDelivery ==
    \A c \in DOMAIN sseClients :
        sseClients[c].written =
            SliceLast(SubSeq(events, 1, sseClients[c].at), REPLAY_COUNT)
               \o LiveOf(sseClients[c])

\* a client connected when the log was longer than the replay and has received
\* events since, while another connected later
C24_Witness ==
    \E c, d \in DOMAIN sseClients :
        /\ sseClients[c].at > REPLAY_COUNT
        /\ Len(events) > sseClients[c].at
        /\ sseClients[c].open
        /\ sseClients[d].at < sseClients[c].at
        /\ Len(sseClients[d].written) > Len(sseClients[c].written)

\* ------------------------------- specification: the ingestion requests

\* requests in a run of the ingestion routes
MaxSignedRequests == 3

\* the bodies sent to the webhook: a heartbeat, or one record for one of two
\* transactions, the second of them foreign
SignedPayloads ==
    {<<>>} \cup {<<Swap(id, FALSE, st)>> : id \in {1, 3}, st \in {"success", "reverted"}}

InitSigned ==
    /\ mode = "real"
    /\ autoResolve = FALSE
    /\ response = NoResponse
    /\ sseClients = <<>>
    /\ nodeEnv \in {"development", "production"}
    /\ aqiCall = NoAqi
    /\ escrow = Deployed
    /\ \E hist \in IngestHistories : StoreIs(ReplayReal(EmptyStore, hist))

NextSigned ==
    \/ \E secretSet \in BOOLEAN, signature \in {"missing", "wrong", "valid"},
          swaps \in SignedPayloads :
          response.n < MaxSignedRequests /\ RequestWebhooksQuicknode(secretSet, signature, swaps)
    \/ \E h \in {EmptyHash, [id |-> 1, uc |-> FALSE]}, st \in {"success", "reverted"},
          pick \in 0..Len(receipts) :
          response.n < MaxSignedRequests /\ RequestStreamsDevEmit(h, 0, "", st, pick)

SpecSigned == InitSigned /\ [][NextSigned]_vars

\* ------------------------------------- claims on the ingestion requests

\* C25: a confirmation record changes the stores (a receipt patched, a
\* scorecard marked verified, a stream event appended) only in a request to
\* the webhook whose signature verified, and a request answered 401 or 404
\* changes nothing.
C25_SignedIngestionOnly ==
    [][/\ (receipts' # receipts \/ battles' # battles \/ streamEvents' # streamEvents)
          => \E swaps \in SignedPayloads :
                CommitStores(WebhooksHandler(Store, TRUE, "valid", swaps).store)
       /\ response'.status \in {401, 404} => CommitStores(Store)]_vars

\* --------------------------------------------------- scoring.ts: the AQI

\* the numbers of scoring.ts are kept exact, as fractions n/d of integers in
\* lowest terms; a receipt given to computeAQI is
\*   [status, flags (the length of safetyFlags), slippageBps, maxSlippageBps,
\*    latencyMs, deadlineMs, gasUsedUsd and maxGasUsd in cents,
\*    rating (0: no userFeedback)]
RECURSIVE GCD(_, _)
GCD(a, b) == IF b = 0 THEN a ELSE GCD(b, a % b)

Frac(n, d) == LET g == GCD(n, d) IN [n |-> n \div g, d |-> d \div g]

FracAdd(a, b) == Frac(a.n * b.d + b.n * a.d, a.d * b.d)

RECURSIVE FracSum(_)
FracSum(fs) == IF fs = <<>> THEN Frac(0, 1) ELSE FracAdd(fs[1], FracSum(Tail(fs)))

\* scores.reduce((a, b) => a + b, 0) / scores.length
FracMean(fs) == LET t == FracSum(fs) IN Frac(t.n, t.d * Len(fs))

\* Math.round(x * 10) / 10, in tenths
RoundTenth(x) == MathRound(10 * x.n, x.d)

\* the weights with feedback counted twice
WEIGHTS_heavy ==
    [reliability |-> 30, safety |-> 25, speed |-> 20, economics |-> 15, feedback |-> 20]

\* WEIGHTS, in hundredths
WEIGHTS ==
    [reliability |-> 30, safety |-> 25, speed |-> 20, economics |-> 15, feedback |-> 10]

scoreReliability(rs) ==
    IF rs = <<>> THEN Frac(0, 1)
    ELSE Frac(100 * Len(SelectSeq(rs, LAMBDA r : r.status = "fulfilled")), Len(rs))

\* the score of one receipt in scoreSafety
SafetyOf(r) ==
    LET flagPenalty == IF r.flags * 10 < 50 THEN r.flags * 10 ELSE 50
        excessBps == IF r.slippageBps > r.maxSlippageBps
                     THEN r.slippageBps - r.maxSlippageBps ELSE 0
        \* min((excessBps / 100) * 15, 30), in hundredths
        slipPenalty == IF excessBps * 15 < 3000 THEN excessBps * 15 ELSE 3000
        score == (100 - flagPenalty) * 100 - slipPenalty
    IN  IF score > 0 THEN Frac(score, 100) ELSE Frac(0, 1)

scoreSafety(rs) ==
    IF rs = <<>> THEN Frac(0, 1)
    ELSE FracMean([i \in DOMAIN rs |-> SafetyOf(rs[i])])

\* the score of one receipt in scoreSpeed: 100 - ((ratio - 1) / 2) * 100
SpeedOf(r) ==
    IF r.latencyMs <= r.deadlineMs THEN Frac(100, 1)
    ELSE IF r.latencyMs >= 3 * r.deadlineMs THEN Frac(0, 1)
    ELSE Frac(200 * r.deadlineMs - 100 * (r.latencyMs - r.deadlineMs), 2 * r.deadlineMs)

scoreSpeed(rs) ==
    IF rs = <<>> THEN Frac(0, 1)
    ELSE FracMean([i \in DOMAIN rs |-> SpeedOf(rs[i])])

\* the score of one receipt in scoreEconomics: 100 - (ratio - 1) * 100
EconomicsOf(r) ==
    IF r.gasUsedUsd <= r.maxGasUsd THEN Frac(100, 1)
    ELSE IF r.gasUsedUsd >= 2 * r.maxGasUsd THEN Frac(0, 1)
    ELSE Frac(100 * r.maxGasUsd - 100 * (r.gasUsedUsd - r.maxGasUsd), r.maxGasUsd)

scoreEconomics(rs) ==
    IF rs = <<>> THEN Frac(0, 1)
    ELSE FracMean([i \in DOMAIN rs |-> EconomicsOf(rs[i])])

\* a feedback score that defaults to 0
scoreFeedbackNoDefault(rs) ==
    LET rated == SelectSeq(rs, LAMBDA r : r.rating # 0)
    IN  IF rated = <<>> THEN Frac(0, 1)
        ELSE Frac(20 * FracSum([i \in DOMAIN rated |-> Frac(rated[i].rating, 1)]).n, Len(rated))

scoreFeedback(rs) ==
    LET rated == SelectSeq(rs, LAMBDA r : r.rating # 0)
    IN  IF rated = <<>> THEN Frac(70, 1)
        ELSE Frac(20 * FracSum([i \in DOMAIN rated |-> Frac(rated[i].rating, 1)]).n, Len(rated))

\* the five component scores before rounding
Components(rs) ==
    [reliability |-> scoreReliability(rs),
     safety      |-> scoreSafety(rs),
     speed       |-> scoreSpeed(rs),
     economics   |-> scoreEconomics(rs),
     feedback    |-> scoreFeedback(rs)]

\* the weighted sum of component scores given as fractions
Weighted(components) ==
    FracSum([i \in 1..5 |->
        LET f == <<"reliability", "safety", "speed", "economics", "feedback">>[i]
        IN  Frac(components[f].n * WEIGHTS[f], components[f].d * 100)])

\* computeAQI; score and components are in tenths
computeAQI(rs) ==
    LET components == Components(rs)
    IN  [score |-> RoundTenth(Weighted(components)),
         components |-> [f \in DOMAIN components |-> RoundTenth(components[f])],
         sampleSize |-> Len(rs)]

\* ------------------------------------------------ specification: the AQI

\* receipts in one call of computeAQI
MaxScored == 3

\* the receipts scored, under the constraints of the safest objective
\* (50 bps, 1.00 USD, 3000 ms): within or over each constraint, and three that
\* reach the caps of the penalties
ScoredReceipts ==
    [status : {"fulfilled", "failed"}, flags : {0, 6}, slippageBps : {40}, maxSlippageBps : {50},
     latencyMs : {2000, 3500}, deadlineMs : {3000}, gasUsedUsd : {50, 125}, maxGasUsd : {100},
     rating : {0, 5}]
    \cup
    {[status |-> "fulfilled", flags |-> 1, slippageBps |-> sl, maxSlippageBps |-> 50,
      latencyMs |-> lat, deadlineMs |-> 3000, gasUsedUsd |-> gas, maxGasUsd |-> 100,
      rating |-> 1] :
        sl \in {90, 300}, lat \in {9000}, gas \in {200}}

ScoredInputs == UNION {[1..n -> ScoredReceipts] : n \in 0..MaxScored}

\* the stores and the environment of the API, untouched by the scoring
\* function and by the contract
apiVars ==
    <<mode, receipts, events, battles, currentBattleId, streamEvents, jobs, paperBets,
      paperResults, nicknameStats, nextBattleId, autoResolve, predictionCalls, lastResolve,
      response, sseClients, nodeEnv>>

\* the API at rest
Idle ==
    /\ mode = "sim"
    /\ autoResolve = FALSE
    /\ response = NoResponse
    /\ sseClients = <<>>
    /\ nodeEnv = "development"
    /\ StoreIs(EmptyStore)

InitAQI ==
    /\ Idle
    /\ escrow = Deployed
    /\ aqiCall \in {[receipts |-> rs, result |-> <<>>] : rs \in ScoredInputs}

\* computeAQI(receipts) returns
ComputeAQI ==
    /\ aqiCall.result = <<>>
    /\ aqiCall' = [aqiCall EXCEPT !.result = <<computeAQI(aqiCall.receipts)>>]
    /\ UNCHANGED <<apiVars, escrow>>

NextAQI == ComputeAQI

SpecAQI == InitAQI /\ [][NextAQI]_vars

\* ------------------------------------------------------ claims on the AQI

\* the weighted sum of the returned component scores, in thousandths
WeightedReturned(result) ==
      result.components.reliability * WEIGHTS.reliability
    + result.components.safety * WEIGHTS.safety
    + result.components.speed * WEIGHTS.speed
    + result.components.economics * WEIGHTS.economics
    + result.components.feedback * WEIGHTS.feedback

\* C26 as stated: the composite is within [0, 100] and equals the weighted sum
\* of the five returned sub-scores rounded to one decimal.
C26_CompositeOfReturned ==
    aqiCall.result # <<>> =>
        LET result == aqiCall.result[1]
        IN  /\ result.score \in 0..1000
            /\ result.score = MathRound(WeightedReturned(result), 100)

\* C26: the composite is within [0, 100], each returned sub-score is within
\* [0, 100], and the composite differs from the weighted sum of the returned
\* sub-scores by at most 0.1: it is rounded from the sub-scores before their
\* own rounding.
C26_CompositeNearReturned ==
    aqiCall.result # <<>> =>
        LET result == aqiCall.result[1]
        IN  /\ result.score \in 0..1000
            /\ \A f \in DOMAIN result.components : result.components[f] \in 0..1000
            /\ Abs(100 * result.score - WeightedReturned(result)) <= 100
            /\ result.score = RoundTenth(Weighted(Components(aqiCall.receipts)))

\* a call whose composite is not the rounded sum of what it returns
C26_Witness ==
    /\ aqiCall.result # <<>>
    /\ Len(aqiCall.receipts) = MaxScored
    /\ aqiCall.result[1].score # MathRound(WeightedReturned(aqiCall.result[1]), 100)

\* C27: for no receipts computeAQI returns reliability, safety, speed and
\* economics 0, feedback 70 and the composite 7.0.
C27_EmptyAQI ==
    (aqiCall.result # <<>> /\ aqiCall.receipts = <<>>) =>
        aqiCall.result[1] =
            [score |-> 70,
             components |-> [reliability |-> 0, safety |-> 0, speed |-> 0, economics |-> 0,
                             feedback |-> 700],
             sampleSize |-> 0]

\* computeAQI has returned for no receipts
C27_Witness ==
    /\ aqiCall.receipts = <<>>
    /\ aqiCall.result # <<>>

\* ------------------------------- claims on the verdict of a broadcast job

\* C28: when runJob stores the receipt of a job that was broadcast, the
\* receipt's outcome status, latency and gas used are those runAgent returned,
\* whatever status the broadcast transaction had, and the broadcast result is
\* the receipt's on-chain evidence.
C28_VerdictSynthetic ==
    [][\A j \in DOMAIN jobs : \A o \in AgentOutcomes(jobs[j].agentId) :
          (jobs[j].onChain # <<>> /\ RunAgentReturns(j, o)) =>
              LET r == receipts'[Len(receipts')]
              IN  /\ Len(receipts') = Len(receipts) + 1
                  /\ r.jobId = j
                  /\ r.outcome.status = o.status
                  /\ r.outcome.latencyMs = o.latencyMs
                  /\ r.outcome.gasUsedUsd = o.gasUsedUsd
                  /\ r.onChain = jobs[j].onChain]_vars

\* a receipt stored as fulfilled for a reverted transaction, and one stored as
\* failed for a successful one
C28_Witness ==
    /\ \E i \in DOMAIN receipts :
          /\ receipts[i].onChain # <<>>
          /\ receipts[i].onChain[1].status = "reverted"
          /\ receipts[i].outcome.status = "fulfilled"
    /\ \E i \in DOMAIN receipts :
          /\ receipts[i].onChain # <<>>
          /\ receipts[i].onChain[1].status = "success"
          /\ receipts[i].outcome.status = "failed"

\* --------------------------- EscrowPredictionPool: the escrow contract

\* ether is counted in units of 0.0005 ether
POINTS_UNIT == 2

MAX_POINTS == 10

\* a transaction that reverts leaves the storage E as it was; tx is the
\* transaction: the function called, msg.sender, msg.value and the arguments
Tx(fn, sender, value, battleId, agentId) ==
    [fn |-> fn, sender |-> sender, value |-> value, battleId |-> battleId, agentId |-> agentId,
     ok |-> TRUE]

Reverted(E, tx) == [E EXCEPT !.call = [tx EXCEPT !.ok = FALSE]]

Succeeded(E, tx) == [E EXCEPT !.call = tx]

\* placePrediction(battleId, agentId) sent by sender with value
placePrediction(E, sender, value, battleId, agentId) ==
    IF \/ ~(value > 0)
       \/ ~(agentId <= 2)
       \/ E.battles[battleId].resolved
       \/ ~(E.predictions[battleId][sender].amount = 0)
    THEN Reverted(E, Tx("placePrediction", sender, value, battleId, agentId))
    ELSE Succeeded(
            [E EXCEPT
                !.battles[battleId].exists = TRUE,
                !.battleTotals[battleId][agentId] = @ + value,
                !.predictions[battleId][sender] =
                    [agentId |-> agentId, amount |-> value, withdrawn |-> FALSE,
                     pointsClaimed |-> FALSE],
                !.balance = @ + value],
            Tx("placePrediction", sender, value, battleId, agentId))

\* a resolveBattle that accepts a resolved battle
resolveBattleAgain(E, sender, battleId, winnerAgentId) ==
    IF \/ sender # E.owner
       \/ ~E.battles[battleId].exists
       \/ ~(winnerAgentId <= 2)
    THEN Reverted(E, Tx("resolveBattle", sender, 0, battleId, winnerAgentId))
    ELSE Succeeded(
            [E EXCEPT !.battles[battleId].resolved = TRUE,
                      !.battles[battleId].winnerAgentId = winnerAgentId],
            Tx("resolveBattle", sender, 0, battleId, winnerAgentId))

\* resolveBattle(battleId, winnerAgentId) sent by sender
resolveBattle(E, sender, battleId, winnerAgentId) ==
    IF \/ sender # E.owner
       \/ ~E.battles[battleId].exists
       \/ E.battles[battleId].resolved
       \/ ~(winnerAgentId <= 2)
    THEN Reverted(E, Tx("resolveBattle", sender, 0, battleId, winnerAgentId))
    ELSE Succeeded(
            [E EXCEPT !.battles[battleId].resolved = TRUE,
                      !.battles[battleId].winnerAgentId = winnerAgentId],
            Tx("resolveBattle", sender, 0, battleId, winnerAgentId))

\* claimPoints(battleId) sent by sender
claimPoints(E, sender, battleId) ==
    LET b == E.battles[battleId]
        p == E.predictions[battleId][sender]
        bonus  == IF p.amount \div POINTS_UNIT > MAX_POINTS - 1
                  THEN MAX_POINTS - 1 ELSE p.amount \div POINTS_UNIT
        earned == 1 + bonus
    IN  IF \/ ~b.resolved
           \/ ~(p.amount > 0)
           \/ p.pointsClaimed
           \/ p.agentId # b.winnerAgentId
        THEN Reverted(E, Tx("claimPoints", sender, 0, battleId, 0))
        ELSE Succeeded(
                [E EXCEPT !.predictions[battleId][sender].pointsClaimed = TRUE,
                          !.points[sender] = @ + earned],
                Tx("claimPoints", sender, 0, battleId, 0))

\* what the code of the receiving account does with the contract while it is
\* being paid, catching a revert: nothing, or a call of withdraw (nonReentrant:
\* _locked is 2 during the transfer, the call reverts) or of claimPoints for
\* the same battle
Reenter(E, sender, battleId, reentry) ==
    CASE reentry = "withdraw" /\ E.locked # 1 -> E
      [] reentry = "claimPoints" ->
             [claimPoints(E, sender, battleId) EXCEPT !.call = E.call]
      [] OTHER -> E

\* a withdraw that leaves the prediction as it was
withdrawKeepsFlag(E, sender, battleId, accepts, reentry) ==
    LET p == E.predictions[battleId][sender]
    IN  IF \/ ~E.battles[battleId].resolved
           \/ ~(p.amount > 0)
           \/ ~accepts
        THEN Reverted(E, Tx("withdraw", sender, 0, battleId, 0))
        ELSE Succeeded(
                [E EXCEPT !.balance = @ - p.amount,
                          !.sent[battleId][sender] = Append(@, p.amount)],
                Tx("withdraw", sender, 0, battleId, 0))

\* withdraw(battleId) sent by sender; accepts: the receiving account takes the
\* ether (the low-level call returns true)
withdraw(E, sender, battleId, accepts, reentry) ==
    LET p  == E.predictions[battleId][sender]
        E1 == [E EXCEPT !.locked = 2, !.predictions[battleId][sender].withdrawn = TRUE]
        refund == p.amount
        E2 == Reenter([E1 EXCEPT !.balance = @ - refund], sender, battleId, reentry)
    IN  IF \/ E.locked # 1
           \/ ~E.battles[battleId].resolved
           \/ ~(p.amount > 0)
           \/ p.withdrawn
           \/ refund > E.balance
           \/ ~accepts
        THEN Reverted(E, Tx("withdraw", sender, 0, battleId, 0))
        ELSE Succeeded(
                [E2 EXCEPT !.locked = 1,
                           !.sent[battleId][sender] = Append(@, refund)],
                Tx("withdraw", sender, 0, battleId, 0))

\* ------------------------------------ specification: the escrow contract

\* predictions accepted in a run of the contract
MaxPredictions == 2

PredictionCount ==
    Cardinality({bu \in EscrowBattleIds \X EscrowAccounts :
                    escrow.predictions[bu[1]][bu[2]].amount > 0})

InitEscrow ==
    /\ Idle
    /\ aqiCall = NoAqi
    /\ escrow = Deployed

\* a transaction calling placePrediction
PlacePrediction(sender, value, battleId, agentId) ==
    /\ escrow' = placePrediction(escrow, sender, value, battleId, agentId)
    /\ UNCHANGED <<apiVars, aqiCall>>

ResolveBattle(sender, battleId, winnerAgentId) ==
    /\ escrow' = resolveBattle(escrow, sender, battleId, winnerAgentId)
    /\ UNCHANGED <<apiVars, aqiCall>>

Withdraw(sender, battleId, accepts, reentry) ==
    /\ escrow' = withdraw(escrow, sender, battleId, accepts, reentry)
    /\ UNCHANGED <<apiVars, aqiCall>>

ClaimPoints(sender, battleId) ==
    /\ escrow' = claimPoints(escrow, sender, battleId)
    /\ UNCHANGED <<apiVars, aqiCall>>

\* value and agent of the predictions sent: two valid ones, no ether, no such agent
PredictionInputs == {<<3, 0>>, <<30, 2>>, <<0, 0>>, <<3, 3>>}

ReentryInputs == {"none", "withdraw", "claimPoints"}

NextEscrow ==
    \/ \E sender \in EscrowAccounts, battleId \in EscrowBattleIds, va \in PredictionInputs :
          PredictionCount < MaxPredictions /\ PlacePrediction(sender, va[1], battleId, va[2])
    \/ \E sender \in EscrowAccounts, battleId \in EscrowBattleIds, winner \in {0, 2, 3} :
          ResolveBattle(sender, battleId, winner)
    \/ \E sender \in EscrowAccounts, battleId \in EscrowBattleIds, accepts \in BOOLEAN,
          reentry \in ReentryInputs :
          Withdraw(sender, battleId, accepts, reentry)
    \/ \E sender \in EscrowAccounts, battleId \in EscrowBattleIds :
          ClaimPoints(sender, battleId)

SpecEscrow == InitEscrow /\ [][NextEscrow]_vars

\* --------------------------------------- claims on the escrow contract

RECURSIVE SumOf(_)
SumOf(amounts) == IF amounts = <<>> THEN 0 ELSE amounts[1] + SumOf(Tail(amounts))

\* the ether withdraw has paid out for the battle, and the ether deposited in it
PaidOut(E, battleId) ==
    LET RECURSIVE Over(_)
        Over(us) == IF us = {} THEN 0
                    ELSE LET u == CHOOSE x \in us : TRUE
                         IN  SumOf(E.sent[battleId][u]) + Over(us \ {u})
    IN  Over(EscrowAccounts)

Deposited(E, battleId) ==
    E.battleTotals[battleId][0] + E.battleTotals[battleId][1] + E.battleTotals[battleId][2]

\* C29: ether leaves the contract only in a withdraw for a resolved battle by
\* a caller with a non-zero prediction in it that was not withdrawn, and the
\* caller is paid exactly the deposit; each depositor is refunded at most once
\* per battle and the total paid out for a battle never exceeds the total
\* deposited in it.
C29_RefundOnce ==
    [][/\ (escrow'.sent # escrow.sent \/ escrow'.balance < escrow.balance) =>
             LET b == escrow'.call.battleId
                 u == escrow'.call.sender
                 p == escrow.predictions[b][u]
             IN  /\ escrow'.call.fn = "withdraw"
                 /\ escrow'.call.ok
                 /\ escrow.battles[b].resolved
                 /\ p.amount > 0
                 /\ ~p.withdrawn
                 /\ escrow'.sent = [escrow.sent EXCEPT ![b][u] = Append(@, p.amount)]
                 /\ escrow'.balance = escrow.balance - p.amount
       /\ \A b \in EscrowBattleIds :
             /\ \A u \in EscrowAccounts : Len(escrow'.sent[b][u]) <= 1
             /\ PaidOut(escrow', b) <= Deposited(escrow', b)]_vars

\* a depositor who was refunded has asked again and was refused, after
\* another depositor of the battle was refunded too
C29_Witness ==
    LET b == escrow.call.battleId
        u == escrow.call.sender
    IN  /\ escrow.call.fn = "withdraw"
        /\ ~escrow.call.ok
        /\ Len(escrow.sent[b][u]) = 1
        /\ \E v \in EscrowAccounts \ {u} : Len(escrow.sent[b][v]) = 1

\* C30: resolveBattle succeeds only when sent by the owner for a battle with
\* at least one prediction that is not resolved; a resolved battle stays
\* resolved with the same winner, and every resolveBattle and placePrediction
\* for it is rejected.
C30_ResolutionFinal ==
    [][/\ \A b \in EscrowBattleIds :
             (~escrow.battles[b].resolved /\ escrow'.battles[b].resolved) =>
                 /\ escrow'.call.fn = "resolveBattle"
                 /\ escrow'.call.sender = EscrowOwner
                 /\ escrow'.call.battleId = b
                 /\ escrow'.call.ok
                 /\ \E u \in EscrowAccounts : escrow.predictions[b][u].amount > 0
       /\ (escrow'.call.fn = "resolveBattle" /\ escrow'.call.ok /\ escrow' # escrow) =>
             /\ escrow'.call.sender = EscrowOwner
             /\ ~escrow.battles[escrow'.call.battleId].resolved
       /\ \A b \in EscrowBattleIds :
             escrow.battles[b].resolved =>
                 /\ escrow'.battles[b] = escrow.battles[b]
                 /\ escrow'.predictions[b] =
                        [u \in EscrowAccounts |->
                            [escrow.predictions[b][u] EXCEPT
                                !.withdrawn = escrow'.predictions[b][u].withdrawn,
                                !.pointsClaimed = escrow'.predictions[b][u].pointsClaimed]]
                 /\ escrow'.battleTotals[b] = escrow.battleTotals[b]
                 /\ (escrow'.call.battleId = b
                     /\ escrow'.call.fn \in {"resolveBattle", "placePrediction"}
                     /\ escrow'.call # escrow.call)
                    => ~escrow'.call.ok]_vars

\* a battle was resolved, and a prediction sent for it afterwards by an account
\* with none in it was rejected
C30_Witness ==
    LET b == escrow.call.battleId
    IN  /\ escrow.call.fn = "placePrediction"
        /\ ~escrow.call.ok
        /\ escrow.battles[b].resolved
        /\ escrow.battles[b].winnerAgentId = 2
        /\ escrow.call.value > 0
        /\ escrow.call.agentId <= 2
        /\ escrow.predictions[b][escrow.call.sender].amount = 0

\* ------------------------------ claims on the finalization of a battle

\* the battles that the step finalizes: complete after it, not before
Finalized ==
    {i \in DOMAIN battles' :
        /\ battles'[i].status = "complete"
        /\ \A k \in DOMAIN battles :
              battles[k].battleId = battles'[i].battleId => battles[k].status # "complete"}

\* C31 as stated: when the winner rule is evaluated for a battle (the step
\* that finalizes it), every scorecard of the battle is fulfilled or failed.
C31_ScorecardsTerminal ==
    [][\A i \in Finalized :
          \A c \in DOMAIN battles'[i].scorecards :
              battles'[i].scorecards[c].status \in {"fulfilled", "failed"}]_vars

\* ----------------------------------- claims on the terminal event of a job

\* the fulfilled and failed events logged for job j
TerminalEvents(j) ==
    {k \in DOMAIN events :
        events[k].type \in {"fulfilled", "failed"} /\ events[k].payload.jobId = j}

\* C32 as stated: a job emits exactly one terminal event: none while it runs,
\* one once runJob has returned or thrown, never a second one.
C32_OneTerminalEvent ==
    \A j \in DOMAIN jobs :
        /\ Cardinality(TerminalEvents(j)) <= 1
        /\ jobs[j].pc \in {"returned", "thrown"} => Cardinality(TerminalEvents(j)) = 1

\* ------------------------- claims on the scorecards of a finalized battle

\* the job runBattleJobs started for the c-th entry of the battle's agent
\* list: jobs are started in the order of the list
PipelineOf(js, battleId, c) ==
    LET mine == {j \in DOMAIN js : js[j].battleId = battleId}
    IN  CHOOSE j \in mine : Cardinality({k \in mine : k <= j}) = c

\* C33 as stated: when a battle is finalized, each scorecard reflects the
\* pipeline started for it: the job id, status, latency, gas used and slippage
\* of the receipt the pipeline returned, or failed and no metrics when the
\* pipeline threw.
C33_ScorecardOwnPipeline ==
    [][\A i \in Finalized :
          \A c \in DOMAIN battles'[i].scorecards :
              LET card == battles'[i].scorecards[c]
                  j    == PipelineOf(jobs', battles'[i].battleId, c)
              IN  IF jobs'[j].pc = "returned"
                  THEN \E r \in DOMAIN receipts' :
                          /\ receipts'[r].jobId = j
                          /\ card.jobId = j
                          /\ card.status = receipts'[r].outcome.status
                          /\ card.latencyMs = receipts'[r].outcome.latencyMs
                          /\ card.gasUsedUsd = receipts'[r].outcome.gasUsedUsd
                          /\ card.slippageBps = receipts'[r].outcome.slippageBps
                  ELSE /\ card.status = "failed"
                       /\ card.latencyMs = Undef
                       /\ card.gasUsedUsd = Undef
                       /\ card.slippageBps = Undef]_vars

\* --------------------------------------- specification: the betting streaks

\* battle ids the bets of a run name (the routes take any non-empty id)
MaxStreakBattles == 3

\* bets placed in a run of the streaks
MaxStreakBets == 3

\* calls of POST /paperbets/resolve in a run of the streaks
MaxStreakResolves == 3

StreakNicknameInputs == {Nick("ann", FALSE, FALSE, FALSE), Nick("bob", FALSE, FALSE, FALSE)}

StreakAgentInputs == {"safe", "fast"}

InitStreak == InitWith({"sim"}, {FALSE})

NextStreak ==
    \/ \E b \in 1..MaxStreakBattles, n \in StreakNicknameInputs, a \in StreakAgentInputs :
          Len(paperBets) < MaxStreakBets /\ PostPaperbetsPlace(b, n, a, 10)
    \/ \E b \in 1..MaxStreakBattles, a \in StreakAgentInputs :
          lastResolve.routeCalls < MaxStreakResolves /\ PostPaperbetsResolve(b, a)

SpecStreak == InitStreak /\ [][NextStreak]_vars

\* the results stored for a nickname, oldest first
ResultsOfNickname(n) == SelectSeq(paperResults, LAMBDA r : r.nickname = n)

\* how many of the latest results share the outcome of the last one
RECURSIVE TrailingRun(_)
TrailingRun(rs) ==
    IF Len(rs) <= 1 THEN Len(rs)
    ELSE IF rs[Len(rs)].won = rs[Len(rs) - 1].won
         THEN 1 + TrailingRun(SubSeq(rs, 1, Len(rs) - 1))
         ELSE 1

\* C34: a nickname has stats exactly when it has results; its current streak is
\* the number of its latest consecutive results with the outcome of the last
\* one, positive when that was a win and negative when it was a loss
C34_StreakOfResults ==
    /\ DOMAIN nicknameStats = {paperResults[i].nickname : i \in DOMAIN paperResults}
    /\ \A n \in DOMAIN nicknameStats :
          LET rs == ResultsOfNickname(n)
          IN  nicknameStats[n].currentStreak =
                  IF rs[Len(rs)].won THEN TrailingRun(rs) ELSE -TrailingRun(rs)

\* a nickname that won, then lost twice: the streak changed sign and grew
C34_Witness ==
    \E n \in DOMAIN nicknameStats :
        /\ Len(ResultsOfNickname(n)) = 3
        /\ ResultsOfNickname(n)[1].won
        /\ nicknameStats[n].currentStreak = -2

\* ------------------------------- specification: requests to run the lobby

\* POST /arena/admin/run, the whole handler (ADMIN_TOKEN is configured; tokenOk:
\* the x-admin-token header equals it)
AdminRunHandler(S, m, tokenOk) ==
    LET bi == getBattle(S.battles, S.currentBattleId)
    IN  IF ~tokenOk THEN [status |-> 403, store |-> S]
        ELSE IF S.currentBattleId = Undef THEN [status |-> 404, store |-> S]
        ELSE IF bi = 0 THEN [status |-> 404, store |-> S]
        ELSE IF ~InLobby(S.battles[bi]) THEN [status |-> 409, store |-> S]
        ELSE [status |-> 202,
              store  |-> runBattleJobs(
                  [S EXCEPT !.battles = startBattle(@, S.currentBattleId)],
                  m, S.currentBattleId, S.battles[bi].battleType, S.battles[bi].agentIds)]

\* a request to POST /arena/admin/run is answered
RequestArenaAdminRun(tokenOk) ==
    LET r == AdminRunHandler(Store, mode, tokenOk)
    IN  Reply(r.store, r.status)

\* battles created in a run of the lobby requests
MaxRunBattles == 3

\* requests to POST /arena/admin/run in a run of the lobby requests
MaxRunRequests == 3

InitRun == InitWith({"sim"}, {FALSE})

NextRun ==
    \/ nextBattleId < MaxRunBattles /\ PostArenaAdminOpen(TRUE, "speed", <<"safe", "fast">>)
    \/ nextBattleId < MaxRunBattles /\ PostArenaBattle(TRUE, "speed", <<"safe", "cheap">>, "absent")
    \/ \E tokenOk \in BOOLEAN :
          response.n < MaxRunRequests /\ RequestArenaAdminRun(tokenOk)
    \/ \E j \in DOMAIN jobs : \E o \in BetsOutcomes(jobs[j].agentId) : RunAgentReturns(j, o)

SpecRun == InitRun /\ [][NextRun]_vars

\* C35: a request to POST /arena/admin/run that is accepted finds the current
\* battle in lobby with no job started for it, sets it running and starts one
\* job per listed agent, all for that battle, and touches no other battle; a
\* request that is refused starts no job and changes no battle. Handlers run
\* one after the other up to startBattle, so of the requests that arrive while
\* a battle is in lobby one is accepted and the others are refused.
C35_StartedOnce ==
    [][Answering =>
          IF response'.status = 202
          THEN LET bi == getBattle(battles, currentBattleId)
               IN  /\ bi # 0
                   /\ battles[bi].status = "lobby"
                   /\ JobsOf(currentBattleId) = {}
                   /\ battles'[bi].status = "running"
                   /\ Len(jobs') = Len(jobs) + Len(battles[bi].agentIds)
                   /\ \A j \in DOMAIN jobs' :
                         IF j \in DOMAIN jobs THEN jobs'[j] = jobs[j]
                         ELSE jobs'[j].battleId = currentBattleId
                   /\ \A k \in DOMAIN battles : k # bi => battles'[k] = battles[k]
          ELSE UNCHANGED <<battles, jobs, receipts, events, currentBattleId>>]_vars

\* the current battle is running or complete after requests to run it were
\* accepted once and refused with 409 afterwards
C35_Witness ==
    /\ response.status = 409
    /\ response.n >= 2
    /\ currentBattleId # Undef
    /\ Cardinality({j \in DOMAIN jobs : jobs[j].battleId = currentBattleId}) = 2

\* ------------------------- specification: scorecards under reconciliation

\* battles created, standalone jobs posted and confirmation records ingested in
\* a run of the scorecards
MaxCardBattles == 1

MaxCardJobs == 1

MaxCardIngests == 2

\* the transactions a confirmation record may name: a job's hash is its number
CardTxIds == 1..3

InitCards == InitWith({"real"}, {FALSE})

NextCards ==
    \/ nextBattleId < MaxCardBattles
          /\ PostArenaBattle(TRUE, "speed", <<"safe", "fast">>, "valid")
    \/ Cardinality({j \in DOMAIN jobs : jobs[j].battleId = Undef}) < MaxCardJobs
          /\ PostJobs("swap", "cheapest", "valid")
    \/ \E j \in DOMAIN jobs : QuoteReturns(j)
    \/ \E j \in DOMAIN jobs : BuildReturns(j)
    \/ \E j \in DOMAIN jobs, st \in {"success", "reverted"} : SendTxReturns(j, st)
    \/ \E j \in DOMAIN jobs : \E o \in BetsOutcomes(jobs[j].agentId) : RunAgentReturns(j, o)
    \/ \E id \in CardTxIds, st \in {"success", "reverted"} :
          StreamCount < MaxCardIngests /\ PostWebhooksQuicknode(TRUE, <<Swap(id, FALSE, st)>>)

SpecCards == InitCards /\ [][NextCards]_vars

MaxConfirmJobs == 1

MaxConfirmIngests == 3

InitConfirm == InitWith({"real"}, {FALSE})

\* the pipeline's external calls, each of which returns or fails
QuoteSettles == \E j \in DOMAIN jobs : QuoteReturns(j) \/ QuoteThrows(j)

BuildSettles == \E j \in DOMAIN jobs : BuildReturns(j) \/ BuildThrows(j)

SendTxSettles ==
    \E j \in DOMAIN jobs :
        \/ \E st \in {"success", "reverted"} : SendTxReturns(j, st)
        \/ \E phase \in {"base_send_tx", "base_confirm_tx"} : SendTxThrows(j, phase)

RunAgentSettles ==
    \E j \in DOMAIN jobs : \E o \in BetsOutcomes(jobs[j].agentId) : RunAgentReturns(j, o)

NextConfirm ==
    \/ Len(jobs) < MaxConfirmJobs /\ PostJobs("swap", "safest", "valid")
    \/ QuoteSettles
    \/ BuildSettles
    \/ SendTxSettles
    \/ RunAgentSettles
    \/ \E id \in 1..MaxConfirmJobs, uc \in BOOLEAN, st \in {"success", "reverted"} :
          StreamCount < MaxConfirmIngests /\ PostWebhooksQuicknode(TRUE, <<Swap(id, uc, st)>>)

\* every external call that is pending eventually returns or fails
SpecConfirm ==
    /\ InitConfirm
    /\ [][NextConfirm]_vars
    /\ WF_vars(QuoteSettles)
    /\ WF_vars(BuildSettles)
    /\ WF_vars(SendTxSettles)
    /\ WF_vars(RunAgentSettles)

\* job j broadcast its transaction: sendTx returned the hash
HasBroadcast(j) == j \in DOMAIN jobs /\ jobs[j].onChain # <<>>

\* a confirmation record carrying the hash of job j's transaction was ingested
ConfirmationIngested(j) ==
    \E k \in DOMAIN events :
        /\ events[k].type = "stream_event"
        /\ events[k].payload.txHash.id = j

\* the receipt of job j is stored and carries the verification source
Reflected(j) ==
    \E r \in DOMAIN receipts :
        /\ receipts[r].jobId = j
        /\ receipts[r].onChain # <<>>
        /\ receipts[r].onChain[1].verifiedBy = "quicknode"

\* C37 as stated: whenever a job has broadcast its transaction and a
\* confirmation record carrying the transaction's hash has been ingested, the
\* job's receipt eventually reflects the confirmation.
C37_ConfirmationReflected ==
    \A j \in 1..MaxConfirmJobs : [](HasBroadcast(j) /\ ConfirmationIngested(j) => <>Reflected(j))

\* C38 as stated: where results exist for a battle, every bet stored for that
\* battle has exactly one result.
C38_EveryBetSettled ==
    \A b \in ResolvedBattles :
        \A i \in DOMAIN paperBets :
            paperBets[i].battleId = b =>
                Cardinality({k \in DOMAIN paperResults :
                                paperResults[k].betId = paperBets[i].id}) = 1

\* ------------------------------- specification: battles run to their end

\* battles created in a run to the end
MaxLiveBattles == 3

InitLive == InitWith({"sim"}, {FALSE})

\* runAgent, the one external call of a battle's pipelines, returns
BattleAgentSettles ==
    \E j \in DOMAIN jobs : \E o \in BetsOutcomes(jobs[j].agentId) : RunAgentReturns(j, o)

NextLive ==
    \/ \E ids \in {<<"safe", "safe">>, <<>>} :
          nextBattleId < MaxLiveBattles /\ PostArenaAdminOpen(TRUE, "speed", ids)
    \/ PostArenaAdminRun(TRUE)
    \/ nextBattleId < MaxLiveBattles
          /\ PostArenaBattle(TRUE, "speed", <<"safe", "cheap">>, "absent")
    \/ BattleAgentSettles

\* the step of BattleAgentSettles as the job list shows it: the job that waited
\* for runAgent has returned
AgentReturned ==
    \E j \in DOMAIN jobs :
        jobs[j].pc = "agent" /\ jobs' = [jobs EXCEPT ![j].pc = "returned"]

\* every call of runAgent that is pending eventually returns
SpecLive == InitLive /\ [][NextLive]_vars /\ WF_jobs(AgentReturned)

\* the record of battle b is stored with the given status
BattleIs(b, status) ==
    \E i \in DOMAIN battles : battles[i].battleId = b /\ battles[i].status = status

\* C39 as stated: a battle that is running eventually is complete.
C39_RunningBecomesComplete ==
    \A b \in 1..MaxLiveBattles : [](BattleIs(b, "running") => <>BattleIs(b, "complete"))

\* C40 as stated: when a battle_complete event is emitted, the battle's record
\* is in the store with status complete, and the winner and the scorecards of
\* the event are those of the record.
C40_CompleteEventTruthful ==
    [][\A e \in NewEvents :
          e.type = "battle_complete" =>
              \E i \in DOMAIN battles' :
                  /\ battles'[i].battleId = e.payload.battleId
                  /\ battles'[i].status = "complete"
                  /\ battles'[i].winnerAgentId = e.payload.winnerAgentId
                  /\ battles'[i].scorecards = e.payload.scorecards]_vars

====
